---- MODULE Spec2Model ----
(***************************************************************************)
(* Ecotrack: the fetch -> populate -> aggregate pipeline and the views     *)
(* that rebuild the MongoDB collections from the PostgreSQL tables.        *)
(*                                                                         *)
(* Text is a sequence of one-character strings ("2.1" is <<"2",".","1">>), *)
(* so that prefix tests, lower-casing, the month regular expression and    *)
(* the slug conversion are computed character by character, as the code    *)
(* computes them.  A NUMERIC value is an integer number of thousandths     *)
(* (100 is 100000, 0.004 is 4); float() is exact on the values used.       *)
(***************************************************************************)
EXTENDS Integers, Sequences, FiniteSets, TLC

VARIABLES
    rel,        \* PostgreSQL: table name -> set of rows [type, date, value]
    mongo,      \* MongoDB: collection name -> (document key -> document)
    job,        \* the aggregation run in progress (scheduler thread)
    seen,       \* what the last request of the web server read
    hist,       \* bookkeeping of the run: snapshots the properties compare with
    pipe        \* the update_data pipeline (scheduler.py / app.py / run.py)

vars == <<rel, mongo, job, seen, hist, pipe>>

----------------------------------------------------------------------------
(* Python text primitives                                                  *)

None == << >>

Digits == {"0", "1", "2", "3", "4", "5", "6", "7", "8", "9"}

LowerLetters ==
    {"a", "b", "c", "d", "e", "f", "g", "h", "i", "j", "k", "l", "m",
     "n", "o", "p", "q", "r", "s", "t", "u", "v", "w", "x", "y", "z"}

\* str.lower(): the upper-case characters and their lower-case forms
UpperToLower ==
    "A" :> "a" @@ "B" :> "b" @@ "C" :> "c" @@ "D" :> "d" @@ "E" :> "e" @@
    "F" :> "f" @@ "G" :> "g" @@ "H" :> "h" @@ "I" :> "i" @@ "J" :> "j" @@
    "K" :> "k" @@ "L" :> "l" @@ "M" :> "m" @@ "N" :> "n" @@ "O" :> "o" @@
    "P" :> "p" @@ "Q" :> "q" @@ "R" :> "r" @@ "S" :> "s" @@ "T" :> "t" @@
    "U" :> "u" @@ "V" :> "v" @@ "W" :> "w" @@ "X" :> "x" @@ "Y" :> "y" @@
    "Z" :> "z" @@ "Ç" :> "ç" @@ "Á" :> "á" @@ "Ã" :> "ã" @@ "É" :> "é" @@
    "Í" :> "í" @@ "Ó" :> "ó" @@ "Ú" :> "ú"

lower(s) ==
    [i \in 1..Len(s) |-> IF s[i] \in DOMAIN UpperToLower
                         THEN UpperToLower[s[i]] ELSE s[i]]

startswith(s, prefix) ==
    /\ Len(s) >= Len(prefix)
    /\ SubSeq(s, 1, Len(prefix)) = prefix

\* unicodedata.normalize("NFKD", s): an accented letter becomes its base
\* letter followed by a combining mark; the mark is written "~" here.
Decomposition ==
    "ç" :> "c" @@ "Ç" :> "C" @@ "á" :> "a" @@ "Á" :> "A" @@ "ã" :> "a" @@
    "Ã" :> "A" @@ "é" :> "e" @@ "É" :> "E" @@ "í" :> "i" @@ "Í" :> "I" @@
    "ó" :> "o" @@ "Ó" :> "O" @@ "ú" :> "u" @@ "Ú" :> "U"

RECURSIVE normalize_NFKD(_)
normalize_NFKD(s) ==
    IF s = << >> THEN << >>
    ELSE (IF Head(s) \in DOMAIN Decomposition
          THEN <<Decomposition[Head(s)], "~">> ELSE <<Head(s)>>)
         \o normalize_NFKD(Tail(s))

AsciiChars ==
    Digits \cup LowerLetters \cup (DOMAIN UpperToLower \ DOMAIN Decomposition)
    \cup {" ", ".", "-", "_", ","}

IsAscii(c) == c \in AsciiChars

\* .encode("ASCII", "ignore").decode(): every non-ASCII character is dropped
encode_ascii_ignore(s) == SelectSeq(s, IsAscii)

\* .replace(" ", "_")
replace_space(s) == [i \in 1..Len(s) |-> IF s[i] = " " THEN "_" ELSE s[i]]

\* the document key of a per-classification document
slug(label) ==
    replace_space(lower(encode_ascii_ignore(normalize_NFKD(label))))

----------------------------------------------------------------------------
(* Text order: ORDER BY on a TEXT column and Python's str comparison,      *)
(* both taken as code-point order.                                         *)

CodePoints ==
    <<" ", ",", "-", ".",
      "0", "1", "2", "3", "4", "5", "6", "7", "8", "9",
      "A", "B", "C", "D", "E", "F", "G", "H", "I", "J", "K", "L", "M",
      "N", "O", "P", "Q", "R", "S", "T", "U", "V", "W", "X", "Y", "Z",
      "_",
      "a", "b", "c", "d", "e", "f", "g", "h", "i", "j", "k", "l", "m",
      "n", "o", "p", "q", "r", "s", "t", "u", "v", "w", "x", "y", "z",
      "Á", "Ã", "Ç", "É", "Í", "Ó", "Ú", "á", "ã", "ç", "é", "í", "ó", "ú",
      "~">>

ord(c) == CHOOSE i \in 1..Len(CodePoints) : CodePoints[i] = c

RECURSIVE str_lt(_, _)
str_lt(a, b) ==
    IF b = << >> THEN FALSE
    ELSE IF a = << >> THEN TRUE
    ELSE IF Head(a) = Head(b) THEN str_lt(Tail(a), Tail(b))
    ELSE ord(Head(a)) < ord(Head(b))

----------------------------------------------------------------------------
(* Date Normalizer: re.match(r"([a-zç]+)\s+(\d{4})", raw_date.lower())     *)
(* followed by the month_map lookup.                                       *)

MonthLetters == LowerLetters \cup {"ç"}

Whitespace == {" "}

\* length of the longest run of characters of S that starts at position i
RECURSIVE span(_, _, _)
span(s, i, S) ==
    IF i <= Len(s) /\ s[i] \in S THEN 1 + span(s, i + 1, S) ELSE 0

YearDigits == 4

\* the groups (month_str, year) of the match, or None
re_match(raw_date) ==
    LET s  == lower(raw_date)
        n1 == span(s, 1, MonthLetters)
        n2 == span(s, n1 + 1, Whitespace)
        n3 == span(s, n1 + n2 + 1, Digits)
    IN  IF n1 >= 1 /\ n2 >= 1 /\ n3 >= YearDigits
        THEN <<SubSeq(s, 1, n1),
               SubSeq(s, n1 + n2 + 1, n1 + n2 + YearDigits)>>
        ELSE None

month_map ==
    <<"j","a","n","e","i","r","o">>         :> <<"0","1">> @@
    <<"f","e","v","e","r","e","i","r","o">> :> <<"0","2">> @@
    <<"m","a","r","ç","o">>                 :> <<"0","3">> @@
    <<"a","b","r","i","l">>                 :> <<"0","4">> @@
    <<"m","a","i","o">>                     :> <<"0","5">> @@
    <<"j","u","n","h","o">>                 :> <<"0","6">> @@
    <<"j","u","l","h","o">>                 :> <<"0","7">> @@
    <<"a","g","o","s","t","o">>             :> <<"0","8">> @@
    <<"s","e","t","e","m","b","r","o">>     :> <<"0","9">> @@
    <<"o","u","t","u","b","r","o">>         :> <<"1","0">> @@
    <<"n","o","v","e","m","b","r","o">>     :> <<"1","1">> @@
    <<"d","e","z","e","m","b","r","o">>     :> <<"1","2">>

\* parse_month_year with month_map.get(month_str, "01")
parse_month_year_default(raw_date) ==
    LET m == re_match(raw_date)
    IN  IF m = None THEN None
        ELSE IF m[1] \notin DOMAIN month_map THEN m[2] \o <<"-", "0", "1">>
        ELSE m[2] \o <<"-">> \o month_map[m[1]]

\* "YYYY-MM", or None when the observation is to be skipped
parse_month_year(raw_date) ==
    LET m == re_match(raw_date)
    IN  IF m = None THEN None
        ELSE IF m[1] \notin DOMAIN month_map THEN None
        ELSE m[2] \o <<"-">> \o month_map[m[1]]

\* the year group alone, as the ranking views use it
parse_year(raw_date) ==
    LET m == re_match(raw_date)
    IN  IF m = None THEN None ELSE m[2]

----------------------------------------------------------------------------
(* Numbers.  round(x, 2) of a value in thousandths; a tie (last digit 5)   *)
(* goes to the even hundredth, as Python rounds an exactly represented     *)
(* half.                                                                   *)

round2(m) ==
    LET q == m \div 10
        r == m % 10
    IN  IF r < 5 THEN 10 * q
        ELSE IF r > 5 THEN 10 * (q + 1)
        ELSE IF q % 2 = 0 THEN 10 * q ELSE 10 * (q + 1)

\* round(value / 1_000_000, 2), in thousandths
Million == 1000000

\* round_millions that divides by 1,000 in place of 1,000,000
round_thousands(m) ==
    LET unit == 10000
        q == m \div unit
        r == m % unit
    IN  IF 2 * r < unit THEN 10 * q
        ELSE IF 2 * r > unit THEN 10 * (q + 1)
        ELSE IF q % 2 = 0 THEN 10 * q ELSE 10 * (q + 1)

round_millions(m) ==
    LET unit == 10 * Million
        q == m \div unit
        r == m % unit
    IN  IF 2 * r < unit THEN 10 * q
        ELSE IF 2 * r > unit THEN 10 * (q + 1)
        ELSE IF q % 2 = 0 THEN 10 * q ELSE 10 * (q + 1)

RECURSIVE sum_value(_)
sum_value(S) ==
    IF S = {} THEN 0
    ELSE LET r == CHOOSE x \in S : TRUE
         IN  r.value + sum_value(S \ {r})

----------------------------------------------------------------------------
(* Python dict: insertion-ordered, a sequence of <<key, value>> pairs.     *)

dict_keys(d) == {d[i][1] : i \in DOMAIN d}

dict_get(d, k) == d[CHOOSE i \in DOMAIN d : d[i][1] = k][2]

dict_set(d, k, v) ==
    IF k \in dict_keys(d)
    THEN [i \in DOMAIN d |-> IF d[i][1] = k THEN <<k, v>> ELSE d[i]]
    ELSE Append(d, <<k, v>>)

\* list.sort(key=lambda x: x["date"]): stable insertion sort on the date
RECURSIVE insert_by_date(_, _)
insert_by_date(sorted, e) ==
    IF sorted = << >> THEN <<e>>
    ELSE IF str_lt(e.date, Head(sorted).date)
         THEN <<e>> \o sorted
         ELSE <<Head(sorted)>> \o insert_by_date(Tail(sorted), e)

RECURSIVE sort_by_date(_)
sort_by_date(records) ==
    IF records = << >> THEN << >>
    ELSE insert_by_date(sort_by_date(SubSeq(records, 1, Len(records) - 1)),
                        records[Len(records)])

----------------------------------------------------------------------------
(* Relational Reader.  A metric table joined with its lookup table is a   *)
(* set of rows [type, date, value]; the UNIQUE (id, date) constraint makes *)
(* (type, date) a key.  A query result is the sequence ORDER BY gives.     *)

\* ORDER BY date, type
by_date_type(a, b) ==
    \/ str_lt(a.date, b.date)
    \/ a.date = b.date /\ str_lt(a.type, b.type)

\* ORDER BY date, volume DESC; rows that tie come in the table's physical
\* order, which is the same for every read of an unchanged table (taken
\* here as type order).
by_date_value_desc(a, b) ==
    \/ str_lt(a.date, b.date)
    \/ a.date = b.date /\ a.value > b.value
    \/ a.date = b.date /\ a.value = b.value /\ str_lt(a.type, b.type)

by_date(a, b) == str_lt(a.date, b.date)

\* aggregate_mongo: sorted(..., key=count, reverse=True): equal counts stay in the
\* order of the rows read (taken here as group_name order)
by_count_desc(a, b) ==
    \/ a.value > b.value
    \/ a.value = b.value /\ str_lt(a.type, b.type)

\* whether row a comes before row b in the named order
comes_before(order, a, b) ==
    IF order = "date, type" THEN by_date_type(a, b)
    ELSE IF order = "date, volume DESC" THEN by_date_value_desc(a, b)
    ELSE IF order = "date" THEN by_date(a, b)
    ELSE by_count_desc(a, b)

\* the rows of S as the sequence the order gives
order_by(S, order) ==
    [i \in 1..Cardinality(S) |->
        CHOOSE x \in S :
            Cardinality({y \in S : comes_before(order, y, x)}) = i - 1]

\* SELECT date, SUM(value) ... GROUP BY date ORDER BY date
group_by_date(table) ==
    order_by({[date |-> d, value |-> sum_value({r \in table : r.date = d})] :
                d \in {r.date : r \in table}}, "date")

\* SELECT type, date, SUM(value) ... GROUP BY type, date ORDER BY date, type
group_by_type_date(table) ==
    order_by({[type |-> k[1], date |-> k[2],
               value |-> sum_value({r \in table : r.type = k[1] /\ r.date = k[2]})] :
                k \in {<<r.type, r.date>> : r \in table}}, "date, type")

----------------------------------------------------------------------------
(* Document Writer operations, as the views issue them.                    *)

\* collection.update_one({"_id": key}, {"$set": doc}, upsert=True)
update_one(coll, key, doc) ==
    [op |-> "update_one", coll |-> coll, key |-> key, doc |-> doc]

\* collection.delete_many({})
delete_many(coll) == [op |-> "delete_many", coll |-> coll]

\* collection.insert_one({"_id": key, **doc})
insert_one(coll, key, doc) ==
    [op |-> "insert_one", coll |-> coll, key |-> key, doc |-> doc]

----------------------------------------------------------------------------
(* Classification Resolver                                                 *)

NoDivision == "None"

\* get_division_name without its last branch
get_division_name_no_retail(type_code) ==
    IF startswith(type_code, <<"2", ".">>) THEN "vehicle_parts_motorcycle"
    ELSE IF startswith(type_code, <<"3", ".">>) THEN "wholesale_trade"
    ELSE NoDivision

\* get_division_name of aggregate_commerce_division: no return on a miss
get_division_name(type_code) ==
    IF startswith(type_code, <<"2", ".">>) THEN "vehicle_parts_motorcycle"
    ELSE IF startswith(type_code, <<"3", ".">>) THEN "wholesale_trade"
    ELSE IF startswith(type_code, <<"4", ".">>) THEN "retail_trade"
    ELSE NoDivision

\* get_division_name_grouped without its final return "other"
get_division_name_grouped_no_default(type_code) ==
    IF startswith(type_code, <<"2", ".">>) THEN "vehicle_parts_motorcycle"
    ELSE IF startswith(type_code, <<"3", ".">>) THEN "wholesale_trade"
    ELSE IF startswith(type_code, <<"4", ".">>) THEN "retail_trade"
    ELSE NoDivision

\* get_division_name of aggregate_commerce_revenue_expense_grouped
get_division_name_grouped(type_code) ==
    IF startswith(type_code, <<"2", ".">>) THEN "vehicle_parts_motorcycle"
    ELSE IF startswith(type_code, <<"3", ".">>) THEN "wholesale_trade"
    ELSE IF startswith(type_code, <<"4", ".">>) THEN "retail_trade"
    ELSE "other"

----------------------------------------------------------------------------
(* Aggregation Engine: each view reads its rows, transforms them, and      *)
(* yields the sequence of writes it then issues, in order.                 *)

\* aggregate_commerce_volume that empties the collection first, as the
\* replace views do
aggregate_commerce_volume_replacing(db) ==
    LET rows == group_by_date(db.commerce_volume)
    IN  <<delete_many("commerce_volume")>> \o
        [i \in 1..Len(rows) |->
            update_one("commerce_volume", rows[i].date,
                       [date |-> rows[i].date, value |-> rows[i].value])]

aggregate_commerce_volume(db) ==
    LET rows == group_by_date(db.commerce_volume)
    IN  [i \in 1..Len(rows) |->
            update_one("commerce_volume", rows[i].date,
                       [date |-> rows[i].date, value |-> rows[i].value])]

ZeroDivisions ==
    [vehicle_parts_motorcycle |-> 0, wholesale_trade |-> 0, retail_trade |-> 0]

\* division_by_date that adds to the bucket without resolving the code
RECURSIVE division_by_date_first_bucket(_, _)
division_by_date_first_bucket(rows, data_by_date) ==
    IF rows = << >> THEN data_by_date
    ELSE LET row == Head(rows)
             d1 == IF row.date \notin dict_keys(data_by_date)
                   THEN dict_set(data_by_date, row.date, ZeroDivisions)
                   ELSE data_by_date
             cur == dict_get(d1, row.date)
         IN  division_by_date_first_bucket(Tail(rows),
                 dict_set(d1, row.date,
                          [cur EXCEPT !.vehicle_parts_motorcycle =
                                          @ + row.value]))

\* the loop "for row in rows" that fills data_by_date
RECURSIVE division_by_date(_, _)
division_by_date(rows, data_by_date) ==
    IF rows = << >> THEN data_by_date
    ELSE LET row == Head(rows)
             division_name == get_division_name(row.type)
             d1 == IF row.date \notin dict_keys(data_by_date)
                   THEN dict_set(data_by_date, row.date, ZeroDivisions)
                   ELSE data_by_date
             cur == dict_get(d1, row.date)
             d2 == IF division_name \in DOMAIN cur
                   THEN dict_set(d1, row.date,
                                 [cur EXCEPT ![division_name] = @ + row.value])
                   ELSE d1
         IN  division_by_date(Tail(rows), d2)

\* division_items that emits only the buckets with a non-zero value
division_items_sparse(date, division_values) ==
    SelectSeq(<<[date |-> date, name |-> "vehicle_parts_motorcycle",
                 value |-> division_values.vehicle_parts_motorcycle],
                [date |-> date, name |-> "wholesale_trade",
                 value |-> division_values.wholesale_trade],
                [date |-> date, name |-> "retail_trade",
                 value |-> division_values.retail_trade]>>,
              LAMBDA item : item.value # 0)

division_items(date, division_values) ==
    <<[date |-> date, name |-> "vehicle_parts_motorcycle",
       value |-> division_values.vehicle_parts_motorcycle],
      [date |-> date, name |-> "wholesale_trade",
       value |-> division_values.wholesale_trade],
      [date |-> date, name |-> "retail_trade",
       value |-> division_values.retail_trade]>>

aggregate_commerce_division(db) ==
    LET rows == group_by_type_date(db.commerce_volume)
        data_by_date == division_by_date(rows, << >>)
    IN  [i \in 1..Len(data_by_date) |->
            update_one("commerce_division", data_by_date[i][1],
                       [data |-> division_items(data_by_date[i][1],
                                                data_by_date[i][2])])]

\* grouped_data.setdefault(date, []).append(item) for each item
RECURSIVE append_by_date(_, _)
append_by_date(items, grouped_data) ==
    IF items = << >> THEN grouped_data
    ELSE LET item == Head(items)
             old == IF item.date \in dict_keys(grouped_data)
                    THEN dict_get(grouped_data, item.date) ELSE << >>
         IN  append_by_date(Tail(items),
                            dict_set(grouped_data, item.date, Append(old, item)))

\* one update_one per date of the dict, in the dict's order
upsert_each(coll, grouped_data) ==
    [i \in 1..Len(grouped_data) |->
        update_one(coll, grouped_data[i][1], [data |-> grouped_data[i][2]])]

\* aggregate_commerce_ranking that writes its documents to the collection
\* of aggregate_commerce_division
aggregate_commerce_ranking_shared(db) ==
    LET rows == order_by(db.commerce_volume, "date, volume DESC")
        items == [i \in 1..Len(rows) |->
                    [date |-> rows[i].date, name |-> rows[i].type,
                     value |-> rows[i].value]]
    IN  upsert_each("commerce_division", append_by_date(items, << >>))

aggregate_commerce_ranking(db) ==
    LET rows == order_by(db.commerce_volume, "date, volume DESC")
        items == [i \in 1..Len(rows) |->
                    [date |-> rows[i].date, name |-> rows[i].type,
                     value |-> rows[i].value]]
    IN  upsert_each("commerce_ranking", append_by_date(items, << >>))

aggregate_commerce_revenue_expense_year(db) ==
    LET revenue_rows == group_by_date(db.commerce_revenue)
        expense_rows == group_by_date(db.commerce_expense)
        item(row, name) == [date |-> row.date, name |-> name,
                            value |-> round_millions(row.value)]
        revenue_items == [i \in 1..Len(revenue_rows) |->
                            item(revenue_rows[i], "revenue")]
        expense_items == [i \in 1..Len(expense_rows) |->
                            item(expense_rows[i], "expense")]
    IN  upsert_each("commerce_revenue_expense_year",
                    append_by_date(expense_items,
                                   append_by_date(revenue_items, << >>)))

\* date_data[(name, type_name)] = date_data.get((name, type_name), 0) + value
RECURSIVE sum_by_date_name_type(_, _, _)
sum_by_date_name_type(rows, name, aggregated_by_date) ==
    IF rows = << >> THEN aggregated_by_date
    ELSE LET row == Head(rows)
             key == <<name, get_division_name_grouped(row.type)>>
             date_data == IF row.date \in dict_keys(aggregated_by_date)
                          THEN dict_get(aggregated_by_date, row.date)
                          ELSE << >>
             old == IF key \in dict_keys(date_data)
                    THEN dict_get(date_data, key) ELSE 0
         IN  sum_by_date_name_type(Tail(rows), name,
                 dict_set(aggregated_by_date, row.date,
                          dict_set(date_data, key, old + row.value)))

grouped_items(date, grouped_items_dict) ==
    [i \in 1..Len(grouped_items_dict) |->
        [date |-> date,
         name |-> grouped_items_dict[i][1][1],
         type |-> grouped_items_dict[i][1][2],
         value |-> round_millions(grouped_items_dict[i][2])]]

aggregate_commerce_revenue_expense_grouped(db) ==
    LET revenue_results == group_by_type_date(db.commerce_revenue)
        expense_results == group_by_type_date(db.commerce_expense)
        aggregated_by_date ==
            sum_by_date_name_type(expense_results, "expense",
                sum_by_date_name_type(revenue_results, "revenue", << >>))
    IN  [i \in 1..Len(aggregated_by_date) |->
            update_one("commerce_revenue_expense_grouped",
                       aggregated_by_date[i][1],
                       [data |-> grouped_items(aggregated_by_date[i][1],
                                               aggregated_by_date[i][2])])]

\* the loop that fills series_by_activity / series_by_segment: a row whose
\* date does not parse is skipped
RECURSIVE monthly_series(_, _)
monthly_series(rows, series_by_type) ==
    IF rows = << >> THEN series_by_type
    ELSE LET row == Head(rows)
             date == parse_month_year(row.date)
             old == IF row.type \in dict_keys(series_by_type)
                    THEN dict_get(series_by_type, row.type) ELSE << >>
         IN  IF date = None
             THEN monthly_series(Tail(rows), series_by_type)
             ELSE monthly_series(Tail(rows),
                      dict_set(series_by_type, row.type,
                               Append(old, [date |-> date,
                                            value |-> round2(row.value)])))

\* one insert_one per classification of the dict, in the dict's order
insert_each(coll, series_by_type) ==
    [i \in 1..Len(series_by_type) |->
        insert_one(coll, slug(series_by_type[i][1]),
                   [data |-> series_by_type[i][2]])]

sorted_series(series_by_type) ==
    [i \in 1..Len(series_by_type) |->
        <<series_by_type[i][1], sort_by_date(series_by_type[i][2])>>]

\* aggregate_industry_production without its delete_many({})
aggregate_industry_production_keep(db) ==
    LET rows == order_by(db.industrial_production, "date, type")
        series_by_activity == monthly_series(rows, << >>)
    IN  insert_each("industry_production_series",
                    sorted_series(series_by_activity))

aggregate_industry_production(db) ==
    LET rows == order_by(db.industrial_production, "date, type")
        series_by_activity == monthly_series(rows, << >>)
    IN  <<delete_many("industry_production_series")>>
        \o insert_each("industry_production_series",
                       sorted_series(series_by_activity))

\* data_by_activity[activity].append({date, value}): no date parsing
RECURSIVE yearly_series(_, _)
yearly_series(rows, data_by_activity) ==
    IF rows = << >> THEN data_by_activity
    ELSE LET row == Head(rows)
             old == IF row.type \in dict_keys(data_by_activity)
                    THEN dict_get(data_by_activity, row.type) ELSE << >>
         IN  yearly_series(Tail(rows),
                 dict_set(data_by_activity, row.type,
                          Append(old, [date |-> row.date,
                                       value |-> round2(row.value)])))

aggregate_industry_revenue_yearly(db) ==
    LET rows == group_by_type_date(db.industrial_revenue)
        data_by_activity == yearly_series(rows, << >>)
    IN  <<delete_many("industry_revenue_yearly")>>
        \o insert_each("industry_revenue_yearly", data_by_activity)

\* is_series_nonzero with all() in place of any()
is_series_all_nonzero(series) == \A i \in DOMAIN series : series[i].value # 0

is_series_nonzero(series) == \E i \in DOMAIN series : series[i].value # 0

keep_nonzero_series(pair) == is_series_nonzero(pair[2])

aggregate_service_volume_monthly(db) ==
    LET rows == order_by(db.service_volume, "date, type")
        series_by_segment == monthly_series(rows, << >>)
    IN  <<delete_many("service_volume_monthly")>>
        \o insert_each("service_volume_monthly",
                       SelectSeq(sorted_series(series_by_segment),
                                 keep_nonzero_series))

aggregate_service_revenue_monthly(db) ==
    LET rows == order_by(db.service_revenue, "date, type")
        series_by_segment == monthly_series(rows, << >>)
    IN  <<delete_many("service_revenue_monthly")>>
        \o insert_each("service_revenue_monthly",
                       SelectSeq(sorted_series(series_by_segment),
                                 keep_nonzero_series))

\* volumes[segment][year] += float(value); a row whose date does not match
\* the pattern is skipped (the month name is not looked up)
RECURSIVE yearly_totals(_, _)
yearly_totals(rows, totals) ==
    IF rows = << >> THEN totals
    ELSE LET row == Head(rows)
             year == parse_year(row.date)
             years == IF row.type \in dict_keys(totals)
                      THEN dict_get(totals, row.type) ELSE << >>
             old == IF year \in dict_keys(years)
                    THEN dict_get(years, year) ELSE 0
         IN  IF year = None
             THEN yearly_totals(Tail(rows), totals)
             ELSE yearly_totals(Tail(rows),
                      dict_set(totals, row.type,
                               dict_set(years, year, old + row.value)))

is_nonzero_series(pair) == \E i \in DOMAIN pair[2] : pair[2][i][2] # 0

\* yearly_data[year].append({name, value}) over the kept segments
RECURSIVE ranking_by_year(_, _)
ranking_by_year(entries, yearly_data) ==
    IF entries = << >> THEN yearly_data
    ELSE LET e == Head(entries)
             old == IF e.year \in dict_keys(yearly_data)
                    THEN dict_get(yearly_data, e.year) ELSE << >>
         IN  ranking_by_year(Tail(entries),
                 dict_set(yearly_data, e.year,
                          Append(old, [name |-> e.name, value |-> e.value])))

\* the (segment, year) pairs in the order of the two nested loops
RECURSIVE segment_year_entries(_)
segment_year_entries(filtered_segments) ==
    IF filtered_segments = << >> THEN << >>
    ELSE LET segment == Head(filtered_segments)[1]
             yearly_values == Head(filtered_segments)[2]
         IN  [i \in 1..Len(yearly_values) |->
                 [year |-> yearly_values[i][1], name |-> slug(segment),
                  value |-> round2(yearly_values[i][2])]]
             \o segment_year_entries(Tail(filtered_segments))

\* one insert_one per year of yearly_data, in the dict's order
insert_years(coll, yearly_data) ==
    [i \in 1..Len(yearly_data) |->
        insert_one(coll, yearly_data[i][1], [data |-> yearly_data[i][2]])]

ranking_writes(coll, rows) ==
    <<delete_many(coll)>>
    \o insert_years(coll,
           ranking_by_year(
               segment_year_entries(
                   SelectSeq(yearly_totals(rows, << >>), is_nonzero_series)),
               << >>))

aggregate_service_volume_ranking(db) ==
    ranking_writes("service_volume_ranking",
                   order_by(db.service_volume, "date, type"))

aggregate_service_revenue_ranking(db) ==
    ranking_writes("service_revenue_ranking",
                   order_by(db.service_revenue, "date, type"))

----------------------------------------------------------------------------
(* Document store semantics.  A collection is a function from document     *)
(* key (_id) to the document's other fields.                               *)

Collections ==
    {"commerce_volume", "commerce_division", "commerce_ranking",
     "commerce_revenue_expense_year", "commerce_revenue_expense_grouped",
     "industry_production_series", "industry_revenue_yearly",
     "service_volume_monthly", "service_volume_ranking",
     "service_revenue_monthly", "service_revenue_ranking"}

\* set_fields with {"$push"} on the data array in place of {"$set"}
set_fields_push(old, doc) ==
    [f \in DOMAIN old \cup DOMAIN doc |->
        IF f \notin DOMAIN doc THEN old[f]
        ELSE IF f = "data" /\ f \in DOMAIN old THEN old[f] \o doc[f]
        ELSE doc[f]]

\* {"$set": doc}: the named fields are replaced whole, the others kept
set_fields(old, doc) ==
    [f \in DOMAIN old \cup DOMAIN doc |->
        IF f \in DOMAIN doc THEN doc[f] ELSE old[f]]

\* insert_one raises DuplicateKeyError when the key is taken
raises(store, w) ==
    w.op = "insert_one" /\ w.key \in DOMAIN store[w.coll]

apply_write(store, w) ==
    IF w.op = "delete_many" THEN [store EXCEPT ![w.coll] = << >>]
    ELSE IF w.op = "insert_one"
    THEN [store EXCEPT ![w.coll] = (w.key :> w.doc) @@ @]
    ELSE IF w.key \in DOMAIN store[w.coll]
    THEN [store EXCEPT ![w.coll] =
             [@ EXCEPT ![w.key] = set_fields(@, w.doc)]]
    ELSE [store EXCEPT ![w.coll] = (w.key :> w.doc) @@ @]

\* the writes of one view issued in order until one raises
RECURSIVE run_writes(_, _)
run_writes(store, writes) ==
    IF writes = << >> THEN [store |-> store, ok |-> TRUE]
    ELSE IF raises(store, Head(writes)) THEN [store |-> store, ok |-> FALSE]
    ELSE run_writes(apply_write(store, Head(writes)), Tail(writes))

----------------------------------------------------------------------------
(* aggregate(): the views in the order it calls them                       *)

Views ==
    <<"commerce_volume", "commerce_division", "commerce_ranking",
      "commerce_revenue_expense_year", "commerce_revenue_expense_grouped",
      "industry_production_series", "industry_revenue_yearly",
      "service_volume_monthly", "service_volume_ranking",
      "service_revenue_monthly", "service_revenue_ranking">>

\* the writes of the view that fills collection v
view_writes(v, db) ==
    CASE v = "commerce_volume" -> aggregate_commerce_volume(db)
      [] v = "commerce_division" -> aggregate_commerce_division(db)
      [] v = "commerce_ranking" -> aggregate_commerce_ranking(db)
      [] v = "commerce_revenue_expense_year" ->
            aggregate_commerce_revenue_expense_year(db)
      [] v = "commerce_revenue_expense_grouped" ->
            aggregate_commerce_revenue_expense_grouped(db)
      [] v = "industry_production_series" -> aggregate_industry_production(db)
      [] v = "industry_revenue_yearly" -> aggregate_industry_revenue_yearly(db)
      [] v = "service_volume_monthly" -> aggregate_service_volume_monthly(db)
      [] v = "service_volume_ranking" -> aggregate_service_volume_ranking(db)
      [] v = "service_revenue_monthly" -> aggregate_service_revenue_monthly(db)
      [] v = "service_revenue_ranking" -> aggregate_service_revenue_ranking(db)

----------------------------------------------------------------------------
(* Bounded data.  The tables of a state are built from one pattern of      *)
(* cells (classification index, date index, value): every table gets the   *)
(* pattern under its own classification texts and date texts.              *)

MaxRows == 2

RECURSIVE PatternsUpTo(_, _)
PatternsUpTo(n, cells) ==
    IF n = 0 THEN {{}}
    ELSE LET smaller == PatternsUpTo(n - 1, cells)
         IN  smaller \cup
             {p \cup {c} : <<p, c>> \in
                 {pc \in smaller \X cells :
                     \A x \in pc[1] : x.t # pc[2].t \/ x.d # pc[2].d}}

Patterns(nt, nd, values) ==
    PatternsUpTo(MaxRows, [t : 1..nt, d : 1..nd, v : values])

rows_of(p, types, dates) ==
    {[type |-> types[c.t], date |-> dates[c.d], value |-> c.v] : c \in p}

\* commerce group codes (cg.type)
CommerceTypes ==
    << <<"2", ".", "1">>, <<"3", ".", "1">>, <<"5", ".", "1">>,
       <<"4", ".", "1">>, <<"2", ".", "9">> >>

\* commerce dates: the annual survey's period, and one month-name text
CommerceDates ==
    << <<"2", "0", "2", "0">>,
       <<"j", "a", "n", "e", "i", "r", "o", " ", "2", "0", "2", "0">>,
       <<"2", "0", "2", "1">> >>

\* monthly survey dates: "Março 2020", "janeiro 2020", and "jan 2020",
\* whose month name is unknown
MonthlyDates ==
    << <<"M", "a", "r", "ç", "o", " ", "2", "0", "2", "0">>,
       <<"j", "a", "n", "e", "i", "r", "o", " ", "2", "0", "2", "0">>,
       <<"j", "a", "n", " ", "2", "0", "2", "0">> >>

\* industrial activities: "Aço" and "aco" have the same slug
ActivityTypes ==
    << <<"A", "ç", "o">>, <<"a", "c", "o">>, <<"G", "á", "s", " ", "1">> >>

\* CNAE classes
ActivityCNAETypes ==
    << <<"1", "0", " ", "A">>, <<"1", "1", " ", "B">>, <<"1", "2", " ", "C">> >>

\* service segments: "Ar 1" and "ar_1" have the same slug
SegmentTypes ==
    << <<"T", "v">>, <<"A", "r", " ", "1">>, <<"a", "r", "_", "1">> >>

\* values in thousandths: 0, 0.004 and 1.5
Values == {0, 4, 1500}

tables_of(p) ==
    [commerce_volume       |-> rows_of(p, CommerceTypes, CommerceDates),
     commerce_company_count |-> rows_of(p, CommerceTypes, CommerceDates),
     commerce_revenue      |-> rows_of(p, CommerceTypes, CommerceDates),
     commerce_expense      |-> rows_of(p, CommerceTypes, CommerceDates),
     industrial_production |-> rows_of(p, ActivityTypes, MonthlyDates),
     industrial_revenue    |-> rows_of(p, ActivityCNAETypes, CommerceDates),
     service_volume        |-> rows_of(p, SegmentTypes, MonthlyDates),
     service_revenue       |-> rows_of(p, SegmentTypes, MonthlyDates)]

----------------------------------------------------------------------------
(* Prior content of the document store: nothing, or what a full           *)
(* aggregation left for an older content of the tables, which had a        *)
(* period and classifications that the current tables no longer have.     *)

EmptyStore == [c \in Collections |-> << >>]

OldCommerceTypes == << <<"2", ".", "7">> >>
OldDates == << <<"1", "9", "9", "9">> >>
OldMonthlyDates == << <<"m", "a", "i", "o", " ", "1", "9", "9", "9">> >>
OldLabels == << <<"V", "e", "l", "h", "o">> >>
OldPattern == {[t |-> 1, d |-> 1, v |-> 7000]}

OldTables ==
    LET kept == tables_of(OldPattern)
        old(types, dates) == rows_of(OldPattern, types, dates)
    IN  [commerce_volume |->
             kept.commerce_volume \cup old(OldCommerceTypes, OldDates),
         commerce_company_count |->
             kept.commerce_company_count \cup old(OldCommerceTypes, OldDates),
         commerce_revenue |->
             kept.commerce_revenue \cup old(OldCommerceTypes, OldDates),
         commerce_expense |->
             kept.commerce_expense \cup old(OldCommerceTypes, OldDates),
         industrial_production |->
             kept.industrial_production \cup old(OldLabels, OldMonthlyDates),
         industrial_revenue |->
             kept.industrial_revenue \cup old(OldLabels, OldDates),
         service_volume |->
             kept.service_volume \cup old(OldLabels, OldMonthlyDates),
         service_revenue |->
             kept.service_revenue \cup old(OldLabels, OldMonthlyDates)]

\* views i..Len(Views) of aggregate() run one after the other
RECURSIVE run_views(_, _, _)
run_views(store, db, i) ==
    IF i > Len(Views) THEN store
    ELSE run_views(run_writes(store, view_writes(Views[i], db)).store, db,
                   i + 1)

StaleStore == run_views(EmptyStore, OldTables, 1)

PriorStores == {EmptyStore, StaleStore}

----------------------------------------------------------------------------
(* State shared by the specifications                                      *)

Idle == [state |-> "idle", next |-> 1, phase |-> "query", todo |-> << >>]

NoResponse == [coll |-> "none", docs |-> << >>]

NoPipeline == [pc |-> "none", thread |-> "none", at |-> 1, done |-> {},
               raised |-> 0, app_data |-> FALSE, response |-> "none",
               api |-> "none", attempts |-> 0,
               program |-> "none", threads |-> << >>,
               scheduler |-> "none"]

NoHistory(store) ==
    [executed |-> {}, before |-> store, prev |-> "idle", asked |-> {}]

----------------------------------------------------------------------------
(* aggregate.aggregate() over data, one view per step                      *)

aggregate_call ==
    /\ job.state # "running"
    /\ job' = [Idle EXCEPT !.state = "running"]
    /\ hist' = [hist EXCEPT !.executed = {}, !.before = mongo,
                            !.prev = job.state]
    /\ UNCHANGED <<rel, mongo, seen, pipe>>

\* the view at job.next issues all its writes and returns
view_completes ==
    /\ job.state = "running"
    /\ \E r \in {run_writes(mongo, view_writes(Views[job.next], rel))} :
           /\ r.ok
           /\ mongo' = r.store
           /\ hist' = [hist EXCEPT !.executed = @ \cup {Views[job.next]}]
    /\ job' = IF job.next = Len(Views)
              THEN [job EXCEPT !.state = "returned"]
              ELSE [job EXCEPT !.next = @ + 1]
    /\ UNCHANGED <<rel, seen, pipe>>

\* an insert_one of the view at job.next raises; aggregate() re-raises
view_fails ==
    /\ job.state = "running"
    /\ \E r \in {run_writes(mongo, view_writes(Views[job.next], rel))} :
           /\ ~r.ok
           /\ mongo' = r.store
    /\ job' = [job EXCEPT !.state = "raised"]
    /\ UNCHANGED <<rel, seen, hist, pipe>>

InitAgg ==
    /\ rel \in {tables_of(p) : p \in Patterns(3, 3, Values)}
    /\ mongo \in PriorStores
    /\ job = Idle
    /\ seen = NoResponse
    /\ hist = NoHistory(mongo)
    /\ pipe = NoPipeline

NextAgg == aggregate_call \/ view_completes \/ view_fails

SpecAgg == InitAgg /\ [][NextAgg]_vars

----------------------------------------------------------------------------
(* Properties of the aggregation over data (SpecAgg)                       *)

labels(rows) == {r.type : r \in rows}

rows_of_label(rows, l) == {r \in rows : r.type = l}

parseable(rows) == {r \in rows : parse_month_year(r.date) # None}

AllZero(rows, l) == \A r \in rows_of_label(rows, l) : r.value = 0

\* a classification's observations as series entries
entries(rows, l) ==
    {[date |-> parse_month_year(r.date), value |-> round2(r.value)] :
        r \in rows_of_label(parseable(rows), l)}

doc_entries(doc) == {doc.data[i] : i \in DOMAIN doc.data}

PerClassificationViews ==
    {"industry_production_series", "industry_revenue_yearly",
     "service_volume_monthly", "service_revenue_monthly"}

ServiceMonthlyViews == {"service_volume_monthly", "service_revenue_monthly"}

service_table(v) ==
    IF v = "service_volume_monthly" THEN rel.service_volume
    ELSE rel.service_revenue

\* the slugs of the classifications that the tables yield for a view:
\* those with an observation that the view keeps
current_ids(v) ==
    IF v = "industry_production_series"
    THEN {slug(l) : l \in labels(parseable(rel.industrial_production))}
    ELSE IF v = "industry_revenue_yearly"
    THEN {slug(l) : l \in labels(rel.industrial_revenue)}
    ELSE {slug(l) : l \in labels({r \in parseable(service_table(v)) :
                                      round2(r.value) # 0})}

\* C6: once a per-classification view has returned in a run, the ids of
\* its collection are exactly the slugs of the classifications the
\* current tables yield for it, whatever the collection held before.
StaleKeysDoNotSurvive ==
    \A v \in PerClassificationViews :
        v \in hist.executed => DOMAIN mongo[v] = current_ids(v)

\* the production view has returned over a collection that held a key the
\* current data does not yield, and the data yields some other key
StaleKeyDropped ==
    /\ "industry_production_series" \in hist.executed
    /\ current_ids("industry_production_series") # {}
    /\ DOMAIN hist.before.industry_production_series
          \ current_ids("industry_production_series") # {}

\* C7 (as amended): after a view has returned, a classification whose
\* every observation is zero has a document in industry_revenue_yearly,
\* and in industry_production_series when one of its dates parses; the
\* service monthly views hold no document whose series is all zero after
\* rounding; and a service classification with a parseable observation
\* that rounds to non-zero is written with the series of all its
\* parseable observations, zero entries included.
ZeroFiltering ==
    /\ "industry_production_series" \in hist.executed =>
          \A l \in labels(parseable(rel.industrial_production)) :
              AllZero(rel.industrial_production, l) =>
                  /\ slug(l) \in DOMAIN mongo.industry_production_series
                  /\ doc_entries(mongo.industry_production_series[slug(l)])
                        = entries(rel.industrial_production, l)
    /\ "industry_revenue_yearly" \in hist.executed =>
          \A l \in labels(rel.industrial_revenue) :
              AllZero(rel.industrial_revenue, l) =>
                  /\ slug(l) \in DOMAIN mongo.industry_revenue_yearly
                  /\ \A e \in doc_entries(
                                 mongo.industry_revenue_yearly[slug(l)]) :
                        e.value = 0
    /\ \A v \in ServiceMonthlyViews : v \in hist.executed =>
          /\ \A id \in DOMAIN mongo[v] :
                \E e \in doc_entries(mongo[v][id]) : e.value # 0
          /\ \A l \in labels(service_table(v)) :
                (\E r \in rows_of_label(parseable(service_table(v)), l) :
                    round2(r.value) # 0)
                => /\ slug(l) \in DOMAIN mongo[v]
                   /\ doc_entries(mongo[v][slug(l)])
                         = entries(service_table(v), l)
                   /\ Len(mongo[v][slug(l)].data) =
                         Cardinality(rows_of_label(
                             parseable(service_table(v)), l))

\* all four views have returned over tables with an all-zero
\* classification and a classification that has a zero and a non-zero
\* observation
ZeroFilteringReached ==
    /\ PerClassificationViews \subseteq hist.executed
    /\ mongo.service_volume_monthly # << >>
    /\ \E l \in labels(parseable(rel.industrial_production)) :
          AllZero(rel.industrial_production, l)
    /\ \E l \in labels(parseable(rel.service_volume)) :
          AllZero(rel.service_volume, l)

\* a service classification with a zero and a non-zero observation has
\* been written
ZeroEntryKept ==
    /\ "service_volume_monthly" \in hist.executed
    /\ \E id \in DOMAIN mongo.service_volume_monthly :
          /\ \E e \in doc_entries(mongo.service_volume_monthly[id]) :
                e.value = 0
          /\ \E e \in doc_entries(mongo.service_volume_monthly[id]) :
                e.value # 0

\* C7 (as stated): the industry views write a document for every all-zero
\* classification, the service views write none for it, and a service
\* classification with a non-zero value is written with one entry per
\* observation.
ZeroFilteringAsStated ==
    /\ "industry_production_series" \in hist.executed =>
          \A l \in labels(rel.industrial_production) :
              AllZero(rel.industrial_production, l) =>
                  slug(l) \in DOMAIN mongo.industry_production_series
    /\ "industry_revenue_yearly" \in hist.executed =>
          \A l \in labels(rel.industrial_revenue) :
              AllZero(rel.industrial_revenue, l) =>
                  slug(l) \in DOMAIN mongo.industry_revenue_yearly
    /\ \A v \in ServiceMonthlyViews : v \in hist.executed =>
          \A l \in labels(service_table(v)) :
              /\ AllZero(service_table(v), l) =>
                    \/ slug(l) \notin DOMAIN mongo[v]
                    \/ \E e \in doc_entries(mongo[v][slug(l)]) : e.value # 0
              /\ ~AllZero(service_table(v), l) =>
                    /\ slug(l) \in DOMAIN mongo[v]
                    /\ Len(mongo[v][slug(l)].data) =
                          Cardinality(rows_of_label(service_table(v), l))

----------------------------------------------------------------------------
(* One scheduled aggregate() run, statement by statement, while the web    *)
(* server answers requests: a view queries PostgreSQL, then issues its     *)
(* MongoDB writes one at a time; any of these calls may raise.             *)

Serving == [NoPipeline EXCEPT !.pc = "serving", !.app_data = TRUE]

\* the scheduler thread calls update_data, which reaches aggregate()
scheduled_aggregate ==
    /\ job.state = "idle"
    /\ job' = [Idle EXCEPT !.state = "running"]
    /\ hist' = [hist EXCEPT !.executed = {}, !.before = mongo]
    /\ UNCHANGED <<rel, mongo, seen, pipe>>

\* a view whose statement were a DELETE of the rows it reads
view_query_deleting ==
    /\ job.state = "running" /\ job.phase = "query"
    /\ job' = [job EXCEPT !.phase = "write",
                          !.todo = view_writes(Views[job.next], rel)]
    /\ rel' = tables_of({})
    /\ UNCHANGED <<mongo, seen, hist, pipe>>

\* cur.execute(query); cur.fetchall() and the transform of the rows
view_query ==
    /\ job.state = "running" /\ job.phase = "query"
    /\ job' = [job EXCEPT !.phase = "write",
                          !.todo = view_writes(Views[job.next], rel)]
    /\ UNCHANGED <<rel, mongo, seen, hist, pipe>>

\* the next update_one / delete_many / insert_one of the view
view_write ==
    /\ job.state = "running" /\ job.phase = "write"
    /\ job.todo # << >>
    /\ ~raises(mongo, Head(job.todo))
    /\ mongo' = apply_write(mongo, Head(job.todo))
    /\ job' = [job EXCEPT !.todo = Tail(@)]
    /\ UNCHANGED <<rel, seen, hist, pipe>>

\* insert_one raises DuplicateKeyError; the view and aggregate() re-raise
view_duplicate_key ==
    /\ job.state = "running" /\ job.phase = "write"
    /\ job.todo # << >>
    /\ raises(mongo, Head(job.todo))
    /\ job' = [job EXCEPT !.state = "raised"]
    /\ UNCHANGED <<rel, mongo, seen, hist, pipe>>

\* the view returns its collection name; aggregate() calls the next view
view_return ==
    /\ job.state = "running" /\ job.phase = "write"
    /\ job.todo = << >>
    /\ hist' = [hist EXCEPT !.executed = @ \cup {Views[job.next]}]
    /\ job' = IF job.next = Len(Views)
              THEN [job EXCEPT !.state = "returned"]
              ELSE [job EXCEPT !.next = @ + 1, !.phase = "query"]
    /\ UNCHANGED <<rel, mongo, seen, pipe>>

\* the PostgreSQL or MongoDB call about to be made raises (connection
\* lost, server error); the view logs and re-raises, and so does aggregate()
view_raises ==
    /\ job.state = "running"
    /\ job.phase = "write" => job.todo # << >>
    /\ job' = [job EXCEPT !.state = "raised"]
    /\ UNCHANGED <<rel, mongo, seen, hist, pipe>>

\* a GET route of the server: find({}) on the route's collection
get_series(c) ==
    /\ pipe.app_data
    /\ seen' = [coll |-> c, docs |-> mongo[c]]
    /\ UNCHANGED <<rel, mongo, job, hist, pipe>>

InitFault ==
    /\ rel \in {tables_of(p) : p \in Patterns(3, 2, {1500})}
    /\ mongo \in PriorStores
    /\ job = Idle
    /\ seen = NoResponse
    /\ hist = NoHistory(mongo)
    /\ pipe = Serving

NextFault ==
    \/ scheduled_aggregate
    \/ view_query
    \/ view_write
    \/ view_duplicate_key
    \/ view_return
    \/ view_raises
    \/ \E c \in Collections : get_series(c)

SpecFault == InitFault /\ [][NextFault]_vars

\* C3: when a view's run has failed, at the query or at any of its writes,
\* the view's collection holds exactly the documents it held before the
\* run started.
NoPartialWrite ==
    job.state = "raised" =>
        mongo[Views[job.next]] = hist.before[Views[job.next]]

ReplacedCollections ==
    PerClassificationViews
        \cup {"service_volume_ranking", "service_revenue_ranking"}

\* the documents a view leaves in its collection when all its writes are
\* issued
complete_set(c) == run_writes(EmptyStore, view_writes(c, rel)).store[c]

\* C4: a read of a replaced collection observes either the complete set
\* of documents it held before the run or the complete new set.
AtomicReplace ==
    seen.coll \in ReplacedCollections =>
        \/ seen.docs = hist.before[seen.coll]
        \/ seen.docs = complete_set(seen.coll)

----------------------------------------------------------------------------
(* aggregate_mongo.py: the year-specific commerce division and ranking,    *)
(* over commerce_group(group_name) and commerce_company_count(count);      *)
(* a row [type, date, value] is (group_name, date, count).                 *)

\* group_name SIMILAR TO '2.[1-3]%' OR ... '3.[1-8]%' OR ... '4.[1-8]%'
similar_to_division(group_name) ==
    /\ Len(group_name) >= 3
    /\ group_name[2] = "."
    /\ \/ group_name[1] = "2" /\ group_name[3] \in {"1", "2", "3"}
       \/ /\ group_name[1] \in {"3", "4"}
          /\ group_name[3] \in {"1", "2", "3", "4", "5", "6", "7", "8"}

\* int() of a non-negative Decimal: the fraction is dropped
int(m) == (m \div 1000) * 1000

\* the _id that MongoDB generates for the document an upsert inserts; at
\* most one document is ever inserted for a year
ObjectId(year) == <<"O", "i", "d", " ">> \o year

\* update_one({"year": year}, {"$set": data}, upsert=True)
store_data_in_mongodb(store, collection_name, year, data) ==
    LET collection == store[collection_name]
        matched == {k \in DOMAIN collection :
                       /\ "year" \in DOMAIN collection[k]
                       /\ collection[k].year = year}
    IN  IF matched # {}
        THEN [store EXCEPT ![collection_name] =
                 [@ EXCEPT ![CHOOSE k \in matched : TRUE] =
                               set_fields(@, data)]]
        ELSE [store EXCEPT ![collection_name] =
                 (ObjectId(year) :> data) @@ @]

commerce_division_data(db, year) ==
    LET result_group == {r.type : r \in {x \in db.commerce_company_count :
                                            similar_to_division(x.type)}}
        result_count == {r \in db.commerce_company_count : r.date = year}
        divisions(prefix) == {g \in result_group : startswith(g, prefix)}
        total(prefix) ==
            int(sum_value({r \in result_count : r.type \in divisions(prefix)}))
    IN  [vehicle_parts_motorcycle |-> total(<<"2", ".">>),
         wholesale_trade |-> total(<<"3", ".">>),
         retail_trade |-> total(<<"4", ".">>),
         year |-> year]

RankingSize == 3

commerce_ranking_data(db, year) ==
    LET result_count == {r \in db.commerce_company_count : r.date = year}
        ranked(prefix) ==
            LET sorted == order_by({r \in result_count :
                                       /\ r.type # << >>
                                       /\ startswith(r.type, prefix)},
                                   "count DESC")
            IN  [i \in 1..(IF Len(sorted) < RankingSize THEN Len(sorted)
                           ELSE RankingSize) |->
                    [name |-> sorted[i].type, count |-> sorted[i].value]]
    IN  [year |-> year,
         vehicle_parts_motorcycle |-> ranked(<<"2", ".">>),
         wholesale_trade |-> ranked(<<"3", ".">>),
         retail_trade |-> ranked(<<"4", ".">>)]

\* aggregate_commerce_division, called by aggregate()
commerce_division_view ==
    /\ LET r == run_writes(mongo, aggregate_commerce_division(rel))
       IN  mongo' = r.store
    /\ hist' = [hist EXCEPT !.executed = @ \cup {"commerce_division"}]
    /\ UNCHANGED <<rel, job, seen, pipe>>

\* aggregate_mongo.commerce_division(year)
commerce_division(year) ==
    /\ mongo' = store_data_in_mongodb(mongo, "commerce_division", year,
                                      commerce_division_data(rel, year))
    /\ hist' = [hist EXCEPT !.asked = @ \cup {<<"division", year>>}]
    /\ UNCHANGED <<rel, job, seen, pipe>>

\* aggregate_mongo.commerce_ranking(year)
commerce_ranking(year) ==
    /\ mongo' = store_data_in_mongodb(mongo, "commerce_ranking", year,
                                      commerce_ranking_data(rel, year))
    /\ hist' = [hist EXCEPT !.asked = @ \cup {<<"ranking", year>>}]
    /\ UNCHANGED <<rel, job, seen, pipe>>

\* values in thousandths: 50 and 100
DivisionValues == {50000, 100000}

DivisionYears == {CommerceDates[1], CommerceDates[2]}

\* the commerce tables filled, the other tables empty
commerce_tables_of(p) ==
    [tables_of({}) EXCEPT
        !.commerce_volume = rows_of(p, CommerceTypes, CommerceDates),
        !.commerce_company_count = rows_of(p, CommerceTypes, CommerceDates),
        !.commerce_revenue = rows_of(p, CommerceTypes, CommerceDates),
        !.commerce_expense = rows_of(p, CommerceTypes, CommerceDates)]

InitDivision ==
    /\ rel \in {commerce_tables_of(p) : p \in Patterns(5, 2, DivisionValues)}
    /\ mongo \in PriorStores
    /\ job = Idle
    /\ seen = NoResponse
    /\ hist = NoHistory(mongo)
    /\ pipe = NoPipeline

NextDivision ==
    \/ commerce_division_view
    \/ \E year \in DivisionYears : commerce_division(year)
    \/ \E year \in DivisionYears : commerce_ranking(year)

SpecDivision == InitDivision /\ [][NextDivision]_vars

----------------------------------------------------------------------------
(* Properties of the commerce division (SpecDivision)                      *)

Buckets == {"vehicle_parts_motorcycle", "wholesale_trade", "retail_trade"}

prefix_of(b) ==
    IF b = "vehicle_parts_motorcycle" THEN <<"2", ".">>
    ELSE IF b = "wholesale_trade" THEN <<"3", ".">>
    ELSE <<"4", ".">>

\* the sum over a period's rows whose code has the bucket's prefix
bucket_sum(rows, d, b) ==
    sum_value({r \in rows : r.date = d /\ startswith(r.type, prefix_of(b))})

\* the same sum over the codes 2.1-2.3, 3.1-3.8, 4.1-4.8 only
listed_sum(rows, d, b) ==
    sum_value({r \in rows : /\ r.date = d
                            /\ startswith(r.type, prefix_of(b))
                            /\ similar_to_division(r.type)})

periods(rows) == {r.date : r \in rows}

\* the document of the year-specific division, once asked for
division_doc(y) == mongo.commerce_division[ObjectId(y)]

\* the view's documents hold the three buckets, each once, with the sum
\* of the period's codes of the bucket's prefix
ViewIsDense ==
    "commerce_division" \in hist.executed =>
        \A d \in periods(rel.commerce_volume) :
            /\ d \in DOMAIN mongo.commerce_division
            /\ LET data == mongo.commerce_division[d].data
               IN  /\ Len(data) = Cardinality(Buckets)
                   /\ \A b \in Buckets : \E i \in DOMAIN data :
                         /\ data[i].name = b
                         /\ data[i].value =
                               bucket_sum(rel.commerce_volume, d, b)

\* C8 (as amended): every period the commerce division view writes holds
\* the three buckets, each exactly once, a bucket's value being the sum of
\* the period's volumes of the codes with its prefix, 0 when there is
\* none; the year-specific division of aggregate_mongo holds the three
\* buckets too, a bucket's value being the integer part of the sum of the
\* year's counts of the codes 2.1-2.3, 3.1-3.8, 4.1-4.8 with its prefix.
DivisionDensity ==
    /\ ViewIsDense
    /\ \A y \in DivisionYears : <<"division", y>> \in hist.asked =>
          /\ DOMAIN division_doc(y) = Buckets \cup {"year"}
          /\ \A b \in Buckets :
                division_doc(y)[b] =
                    int(listed_sum(rel.commerce_company_count, y, b))

\* both divisions have been written for a period whose only codes start
\* with "2."
DivisionDensityReached ==
    /\ "commerce_division" \in hist.executed
    /\ \E r \in rel.commerce_volume :
          /\ <<"division", r.date>> \in hist.asked
          /\ \A x \in rel.commerce_volume :
                x.date = r.date => startswith(x.type, <<"2", ".">>)

\* C8 (as stated): in both divisions a bucket's value is the sum of the
\* period's codes with the matching prefix.
DivisionDensityAsStated ==
    /\ ViewIsDense
    /\ \A y \in DivisionYears : <<"division", y>> \in hist.asked =>
          /\ DOMAIN division_doc(y) = Buckets \cup {"year"}
          /\ \A b \in Buckets :
                division_doc(y)[b] =
                    bucket_sum(rel.commerce_company_count, y, b)

Janeiro2020 == CommerceDates[2]

ScenarioRows ==
    {[type |-> <<"2", ".", "1">>, date |-> Janeiro2020, value |-> 100000],
     [type |-> <<"3", ".", "1">>, date |-> Janeiro2020, value |-> 50000]}

ScenarioData ==
    <<[date |-> Janeiro2020, name |-> "vehicle_parts_motorcycle",
       value |-> 100000],
      [date |-> Janeiro2020, name |-> "wholesale_trade", value |-> 50000],
      [date |-> Janeiro2020, name |-> "retail_trade", value |-> 0]>>

ranking_doc(y) == mongo.commerce_ranking[ObjectId(y)]

\* the names the commerce division view wrote for a period
names_written(d) ==
    {mongo.commerce_division[d].data[i].name :
        i \in DOMAIN mongo.commerce_division[d].data}

\* the view counts every code of the three prefixes in its bucket, the
\* ranking lists a code only under the bucket of its prefix, and no
\* document has a bucket other than the three
ThreeBuckets ==
    /\ "commerce_division" \in hist.executed =>
          \A d \in periods(rel.commerce_volume) :
              /\ names_written(d) \subseteq Buckets
              /\ \A b \in Buckets :
                    \A i \in DOMAIN mongo.commerce_division[d].data :
                        mongo.commerce_division[d].data[i].name = b =>
                            mongo.commerce_division[d].data[i].value =
                                bucket_sum(rel.commerce_volume, d, b)
    /\ \A y \in DivisionYears : <<"ranking", y>> \in hist.asked =>
          /\ DOMAIN ranking_doc(y) \ {"year"} = Buckets
          /\ \A b \in Buckets :
                /\ \A i \in DOMAIN ranking_doc(y)[b] :
                      startswith(ranking_doc(y)[b][i].name, prefix_of(b))
                /\ \A r \in rel.commerce_company_count :
                      (r.date = y /\ startswith(r.type, prefix_of(b))) =>
                          \/ Len(ranking_doc(y)[b]) = RankingSize
                          \/ \E i \in DOMAIN ranking_doc(y)[b] :
                                ranking_doc(y)[b][i].name = r.type
    /\ \A y \in DivisionYears : <<"division", y>> \in hist.asked =>
          DOMAIN division_doc(y) \ {"year"} = Buckets

\* C10 (as amended): the commerce division view of aggregate.py counts
\* every code starting with "2.", "3." or "4." in the bucket of its
\* prefix, leaving none out; the year-specific division of
\* aggregate_mongo counts a code of these prefixes in its bucket only if
\* it is one of 2.1-2.3, 3.1-3.8, 4.1-4.8; the year-specific ranking lists
\* a code only under the bucket of its prefix; and none of them produces
\* a bucket other than the three.
ResolverBuckets ==
    /\ ThreeBuckets
    /\ \A y \in DivisionYears : <<"division", y>> \in hist.asked =>
          \A b \in Buckets :
              division_doc(y)[b] =
                  int(bucket_sum(rel.commerce_company_count, y, b)
                      - sum_value({r \in rel.commerce_company_count :
                                      /\ r.date = y
                                      /\ startswith(r.type, prefix_of(b))
                                      /\ ~similar_to_division(r.type)}))

\* the view, the division and the ranking have been written for a year
\* that has code "2.9" and a code of another prefix
ResolverBucketsReached ==
    /\ "commerce_division" \in hist.executed
    /\ \E r \in rel.commerce_company_count :
          /\ r.type = <<"2", ".", "9">>
          /\ <<"division", r.date>> \in hist.asked
          /\ <<"ranking", r.date>> \in hist.asked
          /\ \E x \in rel.commerce_company_count :
                x.date = r.date /\ ~startswith(x.type, <<"2", ".">>)

\* C10 (as stated): in every non-grouped view no code starting with "2.",
\* "3." or "4." is left out of its bucket's sum.
ResolverBucketsAsStated ==
    /\ ThreeBuckets
    /\ \A y \in DivisionYears : <<"division", y>> \in hist.asked =>
          \A b \in Buckets :
              division_doc(y)[b] =
                  int(bucket_sum(rel.commerce_company_count, y, b))

----------------------------------------------------------------------------
(* run.py / scheduler.py: the pipeline call by call.  update_data calls    *)
(* fetch.fetch(), populate.populate() and aggregate.aggregate(); each of   *)
(* these calls its functions in sequence, and every one of them either     *)
(* returns or raises.                                                      *)

call(stage, sector, name) == [stage |-> stage, sector |-> sector, name |-> name]

Calls ==
    <<call("fetch", "commerce", "fetch_commerce_group"),
      call("fetch", "commerce", "fetch_commerce_volume"),
      call("fetch", "commerce", "fetch_commerce_revenue"),
      call("fetch", "commerce", "fetch_commerce_expense"),
      call("fetch", "industry", "fetch_industry_activity"),
      call("fetch", "industry", "fetch_industry_activity_CNAE"),
      call("fetch", "industry", "fetch_industry_production"),
      call("fetch", "industry", "fetch_industry_revenue"),
      call("fetch", "service", "fetch_service_segment"),
      call("fetch", "service", "fetch_service_volume"),
      call("fetch", "service", "fetch_service_revenue"),
      call("populate", "commerce", "populate_commerce"),
      call("populate", "industry", "populate_industry"),
      call("populate", "service", "populate_service"),
      call("aggregate", "commerce", "aggregate_commerce_volume"),
      call("aggregate", "commerce", "aggregate_commerce_division"),
      call("aggregate", "commerce", "aggregate_commerce_ranking"),
      call("aggregate", "commerce", "aggregate_commerce_revenue_expense_year"),
      call("aggregate", "commerce",
           "aggregate_commerce_revenue_expense_grouped"),
      call("aggregate", "industry", "aggregate_industry_production"),
      call("aggregate", "industry", "aggregate_industry_revenue_yearly"),
      call("aggregate", "service", "aggregate_service_volume_monthly"),
      call("aggregate", "service", "aggregate_service_volume_ranking"),
      call("aggregate", "service", "aggregate_service_revenue_monthly"),
      call("aggregate", "service", "aggregate_service_revenue_ranking")>>

\* run.py main(): the initial update_data()
main ==
    /\ pipe.pc = "start"
    /\ pipe' = [pipe EXCEPT !.pc = "update_data", !.thread = "main"]
    /\ UNCHANGED <<rel, mongo, job, seen, hist>>

\* fetch_data: the fetch call that update_data has reached calls
\* sidrapy.get_table, which returns the table or raises RequestException;
\* attempts counts the calls of get_table that the fetch call has made
get_table ==
    /\ pipe.pc = "update_data"
    /\ pipe.at <= Len(Calls)
    /\ Calls[pipe.at].stage = "fetch"
    /\ pipe.api = "none"
    /\ \E outcome \in {"returned", "RequestException"} :
          pipe' = [pipe EXCEPT !.api = outcome, !.attempts = @ + 1]
    /\ UNCHANGED <<rel, mongo, job, seen, hist>>

\* the call that update_data has reached returns; a fetch call returns
\* after get_table has returned
call_returns ==
    /\ pipe.pc = "update_data"
    /\ pipe.at <= Len(Calls)
    /\ Calls[pipe.at].stage = "fetch" => pipe.api = "returned"
    /\ pipe' = [pipe EXCEPT !.done = @ \cup {pipe.at}, !.at = @ + 1,
                            !.api = "none", !.attempts = 0]
    /\ UNCHANGED <<rel, mongo, job, seen, hist>>

\* an update_data that logged the exception of a call and went on to the
\* next call
call_raises_continues ==
    /\ pipe.pc = "update_data"
    /\ pipe.at <= Len(Calls)
    /\ Calls[pipe.at].stage = "fetch" => pipe.api # "none"
    /\ pipe' = [pipe EXCEPT !.raised = pipe.at, !.at = @ + 1,
                            !.api = "none", !.attempts = 0]
    /\ UNCHANGED <<rel, mongo, job, seen, hist>>

\* an update_data whose exception ends the process on the scheduler's
\* thread too
call_raises_exits ==
    /\ pipe.pc = "update_data"
    /\ pipe.at <= Len(Calls)
    /\ Calls[pipe.at].stage = "fetch" => pipe.api # "none"
    /\ pipe' = [pipe EXCEPT !.raised = pipe.at, !.pc = "exited"]
    /\ UNCHANGED <<rel, mongo, job, seen, hist>>

\* the call that update_data has reached raises (a fetch call in or after
\* its call of get_table, whose exception fetch_data logs and raises
\* again): fetch(), populate() or aggregate() lets it through, update_data logs and re-raises; main()
\* exits with status 1, the scheduler logs the failure of its job
call_raises ==
    /\ pipe.pc = "update_data"
    /\ pipe.at <= Len(Calls)
    /\ Calls[pipe.at].stage = "fetch" => pipe.api # "none"
    /\ pipe' = [pipe EXCEPT !.raised = pipe.at,
                            !.pc = IF pipe.thread = "main" THEN "exited"
                                   ELSE "serving"]
    /\ UNCHANGED <<rel, mongo, job, seen, hist>>

\* serve.app_data = aggregate_result, and update_data returns
update_data_returns ==
    /\ pipe.pc = "update_data"
    /\ pipe.at = Len(Calls) + 1
    /\ pipe' = [pipe EXCEPT !.app_data = TRUE,
                            !.pc = IF pipe.thread = "main"
                                   THEN "start_scheduler" ELSE "serving"]
    /\ UNCHANGED <<rel, mongo, job, seen, hist>>

\* start_scheduler() returns and main() calls serve.serve()
start_scheduler ==
    /\ pipe.pc = "start_scheduler"
    /\ pipe' = [pipe EXCEPT !.pc = "serving", !.scheduler = "started"]
    /\ UNCHANGED <<rel, mongo, job, seen, hist>>

\* a main() that logged the failure of start_scheduler() and went on to
\* serve.serve()
start_scheduler_raises_ignored ==
    /\ pipe.pc = "start_scheduler"
    /\ pipe' = [pipe EXCEPT !.pc = "serving", !.scheduler = "failed"]
    /\ UNCHANGED <<rel, mongo, job, seen, hist>>

\* start_scheduler() raises and main() exits with status 1
start_scheduler_raises ==
    /\ pipe.pc = "start_scheduler"
    /\ pipe' = [pipe EXCEPT !.pc = "exited", !.scheduler = "failed"]
    /\ UNCHANGED <<rel, mongo, job, seen, hist>>

\* the cron trigger fires: update_data runs on the scheduler's thread
cron_fires ==
    /\ pipe.pc = "serving"
    /\ pipe' = [pipe EXCEPT !.pc = "update_data", !.thread = "job",
                            !.at = 1, !.done = {}, !.raised = 0,
                            !.api = "none", !.attempts = 0]
    /\ UNCHANGED <<rel, mongo, job, seen, hist>>

\* serve.before_request on a request to the running server
before_request ==
    /\ \/ pipe.pc = "serving"
       \/ pipe.pc = "update_data" /\ pipe.thread = "job"
    /\ pipe' = [pipe EXCEPT !.response = IF pipe.app_data THEN "next"
                                         ELSE "500"]
    /\ UNCHANGED <<rel, mongo, job, seen, hist>>

Init ==
    /\ rel = tables_of({})
    /\ mongo = EmptyStore
    /\ job = Idle
    /\ seen = NoResponse
    /\ hist = NoHistory(mongo)
    /\ pipe = [NoPipeline EXCEPT !.pc = "start"]

Next ==
    \/ main
    \/ get_table
    \/ call_returns
    \/ call_raises
    \/ update_data_returns
    \/ start_scheduler
    \/ start_scheduler_raises
    \/ cron_fires
    \/ before_request

Spec == Init /\ [][Next]_vars

\* update_data has ended with the exception of call i
ended_by(i) == pipe.raised = i /\ pipe.pc # "update_data"

\* C1: when one view raises in an aggregation run, every other view of the
\* run is still computed and written.
ViewsIsolated ==
    \A i \in DOMAIN Calls :
        (ended_by(i) /\ Calls[i].stage = "aggregate") =>
            \A j \in DOMAIN Calls \ {i} :
                Calls[j].stage = "aggregate" => j \in pipe.done

\* C2: when a fetch, populate or aggregate call of one sector fails in a
\* pipeline run, each other sector is still populated and aggregated in
\* that run.
SectorsIsolated ==
    \A i \in DOMAIN Calls :
        ended_by(i) =>
            \A j \in DOMAIN Calls :
                (Calls[j].sector # Calls[i].sector
                    /\ Calls[j].stage \in {"populate", "aggregate"})
                => j \in pipe.done

----------------------------------------------------------------------------
(* aggregate() over commerce tables whose revenue and expense differ and   *)
(* whose amounts are of the order of millions, with two codes of the same  *)
(* division ("2.1", "2.9") and one code of no division ("5.1").            *)

ScaleTypes ==
    << <<"2", ".", "1">>, <<"2", ".", "9">>, <<"5", ".", "1">> >>

\* amounts in thousandths, by code: 1,234,567, 234,567 and 34,567 of
\* revenue, 234,567, 34,567 and 4,567 of expense; their sums stay within
\* the 32-bit integers of the model checker
RevenueValues == <<1234567000, 234567000, 34567000>>

ExpenseValues == <<234567000, 34567000, 4567000>>

amounts_of(p, amounts) ==
    {[type |-> ScaleTypes[c.t], date |-> CommerceDates[c.d],
      value |-> amounts[c.t]] : c \in p}

scale_tables_of(pr, pe) ==
    [tables_of(pr) EXCEPT
        !.commerce_volume = amounts_of(pe, RevenueValues),
        !.commerce_company_count = amounts_of(pe, RevenueValues),
        !.commerce_revenue = amounts_of(pr, RevenueValues),
        !.commerce_expense = amounts_of(pe, ExpenseValues)]

InitScale ==
    /\ rel \in {scale_tables_of(pr, pe) :
                   pr \in Patterns(3, 2, {0}), pe \in Patterns(3, 2, {0})}
    /\ mongo \in PriorStores
    /\ job = Idle
    /\ seen = NoResponse
    /\ hist = NoHistory(mongo)
    /\ pipe = NoPipeline

SpecScale == InitScale /\ [][NextAgg]_vars

----------------------------------------------------------------------------
(* Properties of the commerce revenue/expense views (SpecScale)            *)

GroupedTypes == Buckets \cup {"other"}

Metrics == {"revenue", "expense"}

metric_rows(name) ==
    IF name = "revenue" THEN rel.commerce_revenue ELSE rel.commerce_expense

\* the division of a code by its prefix, "other" when it has none
type_of(code) ==
    IF \E b \in Buckets : startswith(code, prefix_of(b))
    THEN CHOOSE b \in Buckets : startswith(code, prefix_of(b))
    ELSE "other"

grouped_doc(d) == mongo.commerce_revenue_expense_grouped[d]

\* every period of the grouped view holds each (name, type) pair that has
\* data exactly once, an unmatched code under "other", with the period's
\* sum divided by 1,000,000 and rounded to 2 decimals
GroupedView ==
    "commerce_revenue_expense_grouped" \in hist.executed =>
        \A d \in periods(rel.commerce_revenue) \cup
                 periods(rel.commerce_expense) :
            /\ d \in DOMAIN mongo.commerce_revenue_expense_grouped
            /\ \A i, j \in DOMAIN grouped_doc(d).data :
                  (grouped_doc(d).data[i].name = grouped_doc(d).data[j].name
                      /\ grouped_doc(d).data[i].type =
                             grouped_doc(d).data[j].type) => i = j
            /\ \A i \in DOMAIN grouped_doc(d).data :
                  /\ grouped_doc(d).data[i].name \in Metrics
                  /\ grouped_doc(d).data[i].type \in GroupedTypes
                  /\ grouped_doc(d).data[i].date = d
                  /\ \E r \in metric_rows(grouped_doc(d).data[i].name) :
                        /\ r.date = d
                        /\ type_of(r.type) = grouped_doc(d).data[i].type
                  /\ grouped_doc(d).data[i].value =
                        round_millions(sum_value(
                            {r \in metric_rows(grouped_doc(d).data[i].name) :
                                /\ r.date = d
                                /\ type_of(r.type) =
                                       grouped_doc(d).data[i].type}))
            /\ \A name \in Metrics : \A r \in metric_rows(name) :
                  r.date = d =>
                      \E i \in DOMAIN grouped_doc(d).data :
                          /\ grouped_doc(d).data[i].name = name
                          /\ grouped_doc(d).data[i].type = type_of(r.type)

\* C11 (as amended): a commerce code that starts with none of "2.", "3.",
\* "4." adds to no bucket of the division view, and a period whose
\* observations are all unmatched gets a division document with the three
\* buckets at 0; the grouped revenue/expense view sums such a code under
\* the type "other"; in the grouped view each (name, type) pair appears at
\* most once per period, its value being the per-period sum divided by
\* 1,000,000 (and rounded to 2 decimals) after summation.
UnmatchedPolicy == ViewIsDense /\ GroupedView

\* both views have returned over a period whose volumes are all of code
\* "5.1", a period with revenue of "2.1" and "2.9", which sum to 1.47
\* million, and an expense of "5.1"
UnmatchedPolicyReached ==
    /\ {"commerce_division", "commerce_revenue_expense_grouped"}
          \subseteq hist.executed
    /\ \E d \in periods(rel.commerce_volume) :
          /\ \A r \in rel.commerce_volume :
                r.date = d => r.type = ScaleTypes[3]
          /\ \A i \in DOMAIN mongo.commerce_division[d].data :
                mongo.commerce_division[d].data[i].value = 0
    /\ \E r \in rel.commerce_expense :
          /\ r.type = ScaleTypes[3]
          /\ \E i \in DOMAIN grouped_doc(r.date).data :
                /\ grouped_doc(r.date).data[i].type = "other"
                /\ grouped_doc(r.date).data[i].name = "expense"
                /\ grouped_doc(r.date).data[i].value = 0
    /\ \E d \in periods(rel.commerce_revenue) :
          \E i \in DOMAIN grouped_doc(d).data :
              /\ grouped_doc(d).data[i].type = "vehicle_parts_motorcycle"
              /\ grouped_doc(d).data[i].value = 1470

\* C11 (as stated): as above, but a period whose observations are all
\* unmatched gets no division document.
UnmatchedPolicyAsStated ==
    /\ GroupedView
    /\ "commerce_division" \in hist.executed =>
          \A d \in periods(rel.commerce_volume) :
              IF \E r \in rel.commerce_volume :
                     r.date = d /\ type_of(r.type) # "other"
              THEN /\ d \in DOMAIN mongo.commerce_division
                   /\ \A i \in DOMAIN mongo.commerce_division[d].data :
                         mongo.commerce_division[d].data[i].value =
                             bucket_sum(rel.commerce_volume, d,
                                 mongo.commerce_division[d].data[i].name)
              ELSE d \notin DOMAIN mongo.commerce_division

year_doc(d) == mongo.commerce_revenue_expense_year[d]

\* the entries of a period's document tagged name
tagged(d, name) ==
    {i \in DOMAIN year_doc(d).data : year_doc(d).data[i].name = name}

ScalePeriod == CommerceDates[1]

\* C12: once the combined revenue/expense view has returned, every period
\* with data has a document that holds exactly one entry tagged "revenue"
\* when the period has revenue and exactly one tagged "expense" when it
\* has expense, none otherwise, the value being the period's summed amount
\* divided by 1,000,000 and rounded to 2 decimals; a revenue of 1,234,567
\* and an expense of 234,567 give 1.23 and 0.23.
UnitScaling ==
    "commerce_revenue_expense_year" \in hist.executed =>
        /\ \A d \in periods(rel.commerce_revenue) \cup
                    periods(rel.commerce_expense) :
              /\ d \in DOMAIN mongo.commerce_revenue_expense_year
              /\ \A i \in DOMAIN year_doc(d).data :
                    year_doc(d).data[i].name \in Metrics
              /\ \A name \in Metrics :
                    /\ Cardinality(tagged(d, name)) =
                          IF d \in periods(metric_rows(name)) THEN 1 ELSE 0
                    /\ \A i \in tagged(d, name) :
                          /\ year_doc(d).data[i].date = d
                          /\ year_doc(d).data[i].value =
                                round_millions(sum_value(
                                    {r \in metric_rows(name) : r.date = d}))
        /\ (/\ {r.value : r \in {x \in rel.commerce_revenue :
                                       x.date = ScalePeriod}} = {1234567000}
            /\ {r.value : r \in {x \in rel.commerce_expense :
                                       x.date = ScalePeriod}} = {234567000})
           => year_doc(ScalePeriod).data =
                  <<[date |-> ScalePeriod, name |-> "revenue",
                     value |-> 1230],
                    [date |-> ScalePeriod, name |-> "expense",
                     value |-> 230]>>

\* the view has returned over a period with the revenue 1,234,567 and
\* the expense 234,567, and over a period with an expense and no revenue
UnitScalingReached ==
    /\ "commerce_revenue_expense_year" \in hist.executed
    /\ {r.value : r \in {x \in rel.commerce_revenue :
                            x.date = ScalePeriod}} = {1234567000}
    /\ {r.value : r \in {x \in rel.commerce_expense :
                            x.date = ScalePeriod}} = {234567000}
    /\ CommerceDates[2] \in periods(rel.commerce_expense)
    /\ CommerceDates[2] \notin periods(rel.commerce_revenue)
    /\ Len(year_doc(CommerceDates[2]).data) = 1

----------------------------------------------------------------------------
(* aggregate() over monthly tables of one observation each, whose date     *)
(* text is one of the twelve month names in lower case, capitalized or in  *)
(* upper case followed by a year, or a text of another shape.              *)

MonthNames ==
    << <<"j","a","n","e","i","r","o">>,
       <<"f","e","v","e","r","e","i","r","o">>,
       <<"m","a","r","ç","o">>,
       <<"a","b","r","i","l">>,
       <<"m","a","i","o">>,
       <<"j","u","n","h","o">>,
       <<"j","u","l","h","o">>,
       <<"a","g","o","s","t","o">>,
       <<"s","e","t","e","m","b","r","o">>,
       <<"o","u","t","u","b","r","o">>,
       <<"n","o","v","e","m","b","r","o">>,
       <<"d","e","z","e","m","b","r","o">> >>

upper(s) ==
    [i \in 1..Len(s) |->
        IF \E u \in DOMAIN UpperToLower : UpperToLower[u] = s[i]
        THEN CHOOSE u \in DOMAIN UpperToLower : UpperToLower[u] = s[i]
        ELSE s[i]]

capitalize(s) == upper(SubSeq(s, 1, 1)) \o SubSeq(s, 2, Len(s))

Year2020 == <<"2", "0", "2", "0">>

WellFormedDates ==
    {name \o <<" ">> \o Year2020 :
        name \in {MonthNames[i] : i \in DOMAIN MonthNames}
                 \cup {upper(MonthNames[i]) : i \in DOMAIN MonthNames}
                 \cup {capitalize(MonthNames[i]) : i \in DOMAIN MonthNames}}

\* "jan 2020", "janeiro 202", "janeiro2020", " janeiro 2020", "2020",
\* "2020 janeiro", "janeiro-2020", "janeiro 20201", "janeiro 2020 x", ""
MalformedDates ==
    {<<"j", "a", "n", " ">> \o Year2020,
     MonthNames[1] \o <<" ", "2", "0", "2">>,
     MonthNames[1] \o Year2020,
     <<" ">> \o MonthNames[1] \o <<" ">> \o Year2020,
     Year2020,
     Year2020 \o <<" ">> \o MonthNames[1],
     MonthNames[1] \o <<"-">> \o Year2020,
     MonthNames[1] \o <<" ">> \o Year2020 \o <<"1">>,
     MonthNames[1] \o <<" ">> \o Year2020 \o <<" ", "x">>,
     << >>}

DateInputs == WellFormedDates \cup MalformedDates

\* one observation dated d in industrial_production, service_volume and
\* service_revenue; extra adds to service_revenue an observation of a
\* second segment with the same slug
date_tables_of(d, extra) ==
    [tables_of({}) EXCEPT
        !.industrial_production =
            {[type |-> ActivityTypes[3], date |-> d, value |-> 1500]},
        !.service_volume =
            {[type |-> SegmentTypes[1], date |-> d, value |-> 1500]},
        !.service_revenue =
            {[type |-> SegmentTypes[2], date |-> d, value |-> 1500]}
            \cup (IF extra
                  THEN {[type |-> SegmentTypes[3], date |-> MonthlyDates[1],
                         value |-> 1500]}
                  ELSE {})]

InitDates ==
    /\ rel \in {date_tables_of(d, extra) :
                   d \in DateInputs, extra \in BOOLEAN}
    /\ mongo \in PriorStores
    /\ job = Idle
    /\ seen = NoResponse
    /\ hist = NoHistory(mongo)
    /\ pipe = NoPipeline

SpecDates == InitDates /\ [][NextAgg]_vars

----------------------------------------------------------------------------
(* Properties of the date normalization (SpecDates)                        *)

DigitChars == <<"0", "1", "2", "3", "4", "5", "6", "7", "8", "9">>

two_digits(i) == <<DigitChars[(i \div 10) + 1], DigitChars[(i % 10) + 1]>>

\* d is month name i, in any letter case, one space, and four digits
is_month_year(d, i) ==
    /\ Len(d) = Len(MonthNames[i]) + 1 + YearDigits
    /\ lower(SubSeq(d, 1, Len(MonthNames[i]))) = MonthNames[i]
    /\ d[Len(MonthNames[i]) + 1] = " "
    /\ \A k \in (Len(MonthNames[i]) + 2)..Len(d) : d[k] \in Digits

\* "YYYY-MM" of a date that is_month_year(d, i)
normalized(d, i) ==
    SubSeq(d, Len(d) - YearDigits + 1, Len(d)) \o <<"-">> \o two_digits(i)

MonthlyTables ==
    [industry_production_series |-> rel.industrial_production,
     service_volume_monthly |-> rel.service_volume]

\* the observation of a well-formed date is stored under "YYYY-MM"
WellFormedNormalized ==
    \A v \in DOMAIN MonthlyTables : v \in hist.executed =>
        \A r \in MonthlyTables[v] : \A i \in DOMAIN MonthNames :
            is_month_year(r.date, i) =>
                /\ slug(r.type) \in DOMAIN mongo[v]
                /\ mongo[v][slug(r.type)].data =
                      <<[date |-> normalized(r.date, i),
                         value |-> round2(r.value)]>>

\* the observation of any other date is skipped
OthersSkipped ==
    \A v \in DOMAIN MonthlyTables : v \in hist.executed =>
        \A r \in MonthlyTables[v] :
            (\A i \in DOMAIN MonthNames : ~is_month_year(r.date, i)) =>
                slug(r.type) \notin DOMAIN mongo[v]

\* C13: once a monthly view has returned, an observation dated by one of
\* the 12 month names in any letter case followed by a 4-digit year is
\* stored under "YYYY-MM" with the month's 2-digit number, and an
\* observation with any other date text is skipped.
DateNormalization == WellFormedNormalized /\ OthersSkipped

----------------------------------------------------------------------------
(* aggregate() over monthly tables whose dates are "Março 2020",           *)
(* "jan 2020" (no known month name), "janeiro 202" (no 4-digit year) and   *)
(* "maio 2021".                                                            *)

SkipDates ==
    << capitalize(MonthNames[3]) \o <<" ">> \o Year2020,
       <<"j", "a", "n", " ">> \o Year2020,
       MonthNames[1] \o <<" ", "2", "0", "2">>,
       MonthNames[5] \o <<" ", "2", "0", "2", "1">> >>

skip_tables_of(p) ==
    [tables_of({}) EXCEPT
        !.industrial_production = rows_of(p, ActivityTypes, SkipDates),
        !.service_volume = rows_of(p, SegmentTypes, SkipDates),
        !.service_revenue = rows_of(p, SegmentTypes, SkipDates)]

InitSkip ==
    /\ rel \in {skip_tables_of(p) : p \in Patterns(3, 4, {1500})}
    /\ mongo \in PriorStores
    /\ job = Idle
    /\ seen = NoResponse
    /\ hist = NoHistory(mongo)
    /\ pipe = NoPipeline

SpecSkip == InitSkip /\ [][NextAgg]_vars

----------------------------------------------------------------------------
(* Properties of the skipping of unparseable dates (SpecSkip)              *)

has_known_month(d) == \E i \in DOMAIN MonthNames : is_month_year(d, i)

month_key(d) ==
    normalized(d, CHOOSE i \in DOMAIN MonthNames : is_month_year(d, i))

\* d starts with letters, then spaces, then the four digits y
starts_with_year(d, y) ==
    \E n, k \in 1..Len(d) :
        /\ n + k + YearDigits <= Len(d)
        /\ \A i \in 1..n : lower(d)[i] \in MonthLetters
        /\ \A i \in (n + 1)..(n + k) : d[i] = " "
        /\ \A i \in (n + k + 1)..(n + k + YearDigits) : d[i] \in Digits
        /\ SubSeq(d, n + k + 1, n + k + YearDigits) = y

Year2021 == <<"2", "0", "2", "1">>

YearTexts == {Year2020, Year2021, <<"1", "9", "9", "9">>}

SkipMonthlyTables ==
    [industry_production_series |-> rel.industrial_production,
     service_volume_monthly |-> rel.service_volume,
     service_revenue_monthly |-> rel.service_revenue]

SkipRankingTables ==
    [service_volume_ranking |-> rel.service_volume,
     service_revenue_ranking |-> rel.service_revenue]

\* the series entries that a view keyed by slug owes to the observations
\* with a known month name and a 4-digit year
kept_entries(rows, id) ==
    {[date |-> month_key(r.date), value |-> round2(r.value)] :
        r \in {x \in rows : slug(x.type) = id /\ has_known_month(x.date)}}

\* the monthly views hold exactly the observations with a known month name
\* and a 4-digit year
MonthlySkips ==
    \A v \in DOMAIN SkipMonthlyTables : v \in hist.executed =>
        /\ DOMAIN mongo[v] \subseteq
              {slug(r.type) : r \in SkipMonthlyTables[v]}
        /\ \A r \in SkipMonthlyTables[v] :
              IF kept_entries(SkipMonthlyTables[v], slug(r.type)) = {}
              THEN slug(r.type) \notin DOMAIN mongo[v]
              ELSE /\ slug(r.type) \in DOMAIN mongo[v]
                   /\ doc_entries(mongo[v][slug(r.type)]) =
                         kept_entries(SkipMonthlyTables[v], slug(r.type))
                   /\ Len(mongo[v][slug(r.type)].data) =
                         Cardinality({x \in SkipMonthlyTables[v] :
                                         /\ slug(x.type) = slug(r.type)
                                         /\ has_known_month(x.date)})

\* whether an observation dated d counts for year y: by its year alone,
\* or by its year when its month name is known
counted(rule, d, y) ==
    IF rule = "year" THEN starts_with_year(d, y)
    ELSE has_known_month(d) /\ starts_with_year(d, y)

\* the rows of a segment that count for year y
year_rows(rows, l, y, rule) ==
    {r \in rows : r.type = l /\ counted(rule, r.date, y)}

\* the ranking views hold, for every year, one entry per segment with an
\* observation that counts for the year, valued with the sum of these
RankingSums(rule) ==
    \A v \in DOMAIN SkipRankingTables : v \in hist.executed =>
        \A y \in YearTexts :
            IF \A r \in SkipRankingTables[v] : ~counted(rule, r.date, y)
            THEN y \notin DOMAIN mongo[v]
            ELSE /\ y \in DOMAIN mongo[v]
                 /\ Len(mongo[v][y].data) =
                       Cardinality({l \in labels(SkipRankingTables[v]) :
                           year_rows(SkipRankingTables[v], l, y, rule) # {}})
                 /\ \A l \in labels(SkipRankingTables[v]) :
                       year_rows(SkipRankingTables[v], l, y, rule) # {}
                       => \E i \in DOMAIN mongo[v][y].data :
                             /\ mongo[v][y].data[i].name = slug(l)
                             /\ mongo[v][y].data[i].value =
                                   round2(sum_value(year_rows(
                                       SkipRankingTables[v], l, y, rule)))

\* a view raises only on two classifications of the same slug that both
\* have an observation it keeps, never on a date
RaisesOnlyOnDuplicate ==
    job.state = "raised" =>
        /\ Views[job.next] \in DOMAIN SkipMonthlyTables
        /\ \E a, b \in SkipMonthlyTables[Views[job.next]] :
              /\ a.type # b.type
              /\ slug(a.type) = slug(b.type)
              /\ has_known_month(a.date)
              /\ has_known_month(b.date)

\* C14 (as amended): in the monthly views an observation whose date has no
\* known month name or no 4-digit year contributes to no document; in the
\* yearly service ranking views an observation contributes to no document
\* and no sum when its date does not start with letters, spaces and four
\* digits, while one with an unknown month name before a 4-digit year is
\* summed into that year; no view raises because of a date, and the
\* remaining observations are written.
UnparseableSkipped ==
    /\ MonthlySkips
    /\ RankingSums("year")
    /\ RaisesOnlyOnDuplicate

\* a run has returned over a segment with an observation of March 2020
\* and one of "jan 2020", which the monthly view skips and the ranking
\* sums into 2020
UnparseableSkippedReached ==
    /\ job.state = "returned"
    /\ \E a, b \in rel.service_volume :
          /\ a.type = b.type
          /\ a.date = SkipDates[1] /\ b.date = SkipDates[2]
          /\ Len(mongo.service_volume_monthly[slug(a.type)].data) = 1
          /\ mongo.service_volume_ranking[Year2020].data =
                <<[name |-> slug(a.type), value |-> 3000]>>

\* a run has returned over an observation dated "janeiro 202", which
\* every view skips, and one of May 2021
NoYearSkippedReached ==
    /\ job.state = "returned"
    /\ \E a, b \in rel.service_volume :
          /\ a.date = SkipDates[3] /\ b.date = SkipDates[4]
          /\ DOMAIN mongo.service_volume_ranking = {Year2021}
          /\ Year2020 \notin DOMAIN mongo.service_volume_ranking

\* C14 (as stated): in every view that parses dates, the ranking views
\* included, an observation whose date has no known month name or no
\* 4-digit year contributes to no document and no sum, and the view
\* completes and writes the remaining observations.
UnparseableSkippedAsStated ==
    /\ MonthlySkips
    /\ RankingSums("month and year")
    /\ RaisesOnlyOnDuplicate

----------------------------------------------------------------------------
(* aggregate_mongo.py: the service rankings of a year, cut at top_n.       *)
(* A row [type, date, value] of service_volume / service_revenue is        *)
(* (service, date, volume / revenue).                                      *)

\* date LIKE '%year%'
like(date, year) ==
    \E i \in 0..(Len(date) - Len(year)) :
        SubSeq(date, i + 1, i + Len(year)) = year

\* SELECT service, SUM(value) ... WHERE date LIKE %year% GROUP BY service
totals_of_year(table, year) ==
    {[type |-> l,
      value |-> sum_value({r \in table : r.type = l /\ like(r.date, year)})] :
        l \in {r.type : r \in {x \in table : like(x.date, year)}}}

\* ORDER BY total DESC: every order of the groups in which no total is
\* followed by a larger one (the order of equal totals is not specified)
orders_desc(groups) ==
    {s \in [1..Cardinality(groups) -> groups] :
        /\ \A i, j \in DOMAIN s : s[i] = s[j] => i = j
        /\ \A i, j \in DOMAIN s : i < j => s[i].value >= s[j].value}

\* the ranking query without its LIMIT
ranking_query_unlimited(table, year, top_n) ==
    orders_desc(totals_of_year(table, year))

\* the possible results of the ranking query: ... LIMIT top_n
ranking_query(table, year, top_n) ==
    {SubSeq(s, 1, IF Len(s) < top_n THEN Len(s) ELSE top_n) :
        s \in orders_desc(totals_of_year(table, year))}

\* the text of a top_n, for the generated _id
number_text(n) == <<"0", "1", "2", "3", "4", "5", "6", "7", "8", "9">>[n + 1]

\* update_one(query_filter, {"$set": data}, upsert=True); oid is the _id
\* that MongoDB generates when the upsert inserts
store_by_filter(store, collection_name, query_filter, oid, data) ==
    LET collection == store[collection_name]
        matched == {k \in DOMAIN collection :
                       \A f \in DOMAIN query_filter :
                           /\ f \in DOMAIN collection[k]
                           /\ collection[k][f] = query_filter[f]}
    IN  IF matched # {}
        THEN [store EXCEPT ![collection_name] =
                 [@ EXCEPT ![CHOOSE k \in matched : TRUE] =
                               set_fields(@, data)]]
        ELSE [store EXCEPT ![collection_name] =
                 (oid :> set_fields(query_filter, data)) @@ @]

ranking_oid(year, top_n) == ObjectId(year \o <<" ", number_text(top_n)>>)

\* aggregate_mongo.service_volume_ranking(year, top_n)
service_volume_ranking(year, top_n) ==
    /\ \E result_ranking \in ranking_query(rel.service_volume, year, top_n) :
          mongo' =
              IF result_ranking = << >> THEN mongo
              ELSE store_by_filter(mongo, "service_volume_ranking",
                       [year |-> year, top_n |-> top_n],
                       ranking_oid(year, top_n),
                       [year |-> year, top_n |-> top_n,
                        ranking |->
                            [i \in DOMAIN result_ranking |->
                                [service |-> result_ranking[i].type,
                                 total_volume |-> result_ranking[i].value]]])
    /\ hist' = [hist EXCEPT !.asked =
                    @ \cup {<<"service_volume_ranking", year, top_n>>}]
    /\ UNCHANGED <<rel, job, seen, pipe>>

\* aggregate_mongo.service_revenue_ranking(year, top_n)
service_revenue_ranking(year, top_n) ==
    /\ \E result_ranking \in ranking_query(rel.service_revenue, year, top_n) :
          mongo' =
              IF result_ranking = << >> THEN mongo
              ELSE store_by_filter(mongo, "service_revenue_ranking",
                       [year |-> year, top_n |-> top_n],
                       ranking_oid(year, top_n),
                       [year |-> year, top_n |-> top_n,
                        ranking |->
                            [i \in DOMAIN result_ranking |->
                                [service |-> result_ranking[i].type,
                                 total_revenue |-> result_ranking[i].value]]])
    /\ hist' = [hist EXCEPT !.asked =
                    @ \cup {<<"service_revenue_ranking", year, top_n>>}]
    /\ UNCHANGED <<rel, job, seen, pipe>>

\* segments A, B and C
RankingSegments == << <<"A">>, <<"B">>, <<"C">> >>

\* "maio 2020" and "maio 2021"
RankingDates ==
    << MonthNames[5] \o <<" ">> \o Year2020,
       MonthNames[5] \o <<" ", "2", "0", "2", "1">> >>

\* values in thousandths: 250
RankingValues == {250000}

\* A: 300, B: 200, C: 100 in "janeiro 2020"
RankingBase ==
    {[type |-> RankingSegments[1], date |-> MonthNames[1] \o <<" ">> \o Year2020,
      value |-> 300000],
     [type |-> RankingSegments[2], date |-> MonthNames[1] \o <<" ">> \o Year2020,
      value |-> 200000],
     [type |-> RankingSegments[3], date |-> MonthNames[1] \o <<" ">> \o Year2020,
      value |-> 100000]}

RankingYears == {Year2020, <<"2", "0", "2", "1">>}

TopNs == {1, 2}

\* the service tables hold the base rows and the rows of a pattern
ranking_tables_of(p) ==
    [tables_of({}) EXCEPT
        !.service_volume =
            RankingBase \cup rows_of(p, RankingSegments, RankingDates),
        !.service_revenue =
            RankingBase \cup rows_of(p, RankingSegments, RankingDates)]

InitRanking ==
    /\ rel \in {ranking_tables_of(p) : p \in Patterns(3, 2, RankingValues)}
    /\ mongo = EmptyStore
    /\ job = Idle
    /\ seen = NoResponse
    /\ hist = NoHistory(mongo)
    /\ pipe = NoPipeline

NextRanking ==
    \/ \E year \in RankingYears, top_n \in TopNs :
          service_volume_ranking(year, top_n)
    \/ \E year \in RankingYears, top_n \in TopNs :
          service_revenue_ranking(year, top_n)

SpecRanking == InitRanking /\ [][NextRanking]_vars

----------------------------------------------------------------------------
(* Properties of the top-N rankings (SpecRanking)                          *)

RankingOps ==
    [service_volume_ranking |->
         [table |-> rel.service_volume, total |-> "total_volume"],
     service_revenue_ranking |->
         [table |-> rel.service_revenue, total |-> "total_revenue"]]

year_total(table, l, y) ==
    sum_value({r \in table : r.type = l /\ like(r.date, y)})

segments_of_year(table, y) == {r.type : r \in {x \in table : like(x.date, y)}}

\* the documents of a collection stored for (year, top_n)
ranking_docs(c, y, n) ==
    {mongo[c][k] : k \in {x \in DOMAIN mongo[c] :
        /\ {"year", "top_n"} \subseteq DOMAIN mongo[c][x]
        /\ mongo[c][x].year = y
        /\ mongo[c][x].top_n = n}}

\* the ranking list is the top n of the year's segments by summed value
IsTopN(ranking, table, total, y, n) ==
    /\ Len(ranking) = IF Cardinality(segments_of_year(table, y)) < n
                      THEN Cardinality(segments_of_year(table, y)) ELSE n
    /\ \A i \in DOMAIN ranking :
          /\ ranking[i].service \in segments_of_year(table, y)
          /\ ranking[i][total] = year_total(table, ranking[i].service, y)
    /\ \A i, j \in DOMAIN ranking :
          /\ ranking[i].service = ranking[j].service => i = j
          /\ i < j => ranking[i][total] >= ranking[j][total]
    /\ \A l \in segments_of_year(table, y) :
          \/ \E i \in DOMAIN ranking : ranking[i].service = l
          \/ \A i \in DOMAIN ranking :
                ranking[i][total] >= year_total(table, l, y)

----------------------------------------------------------------------------
(* Properties of the untruncated ranking views (SpecAgg)                   *)

FullRankingTables ==
    [commerce_ranking |-> rel.commerce_volume,
     service_volume_ranking |-> rel.service_volume,
     service_revenue_ranking |-> rel.service_revenue]

\* the documents that the ranking view of collection v wrote in this run:
\* commerce_ranking upserts one document per date of its table, the service
\* rankings empty their collection first
written_rankings(v) ==
    IF v = "commerce_ranking"
    THEN {mongo[v][k] : k \in DOMAIN mongo[v]
                              \cap {r.date : r \in rel.commerce_volume}}
    ELSE {mongo[v][k] : k \in DOMAIN mongo[v]}

descending(data) ==
    \A i, j \in DOMAIN data : i < j => data[i].value >= data[j].value

\* C16: in every document written by commerce_ranking,
\* service_volume_ranking and service_revenue_ranking the data list has at
\* most one entry per classification label of the table and its entries are
\* ordered by descending value.
FullRankingsDescending ==
    \A v \in DOMAIN FullRankingTables : v \in hist.executed =>
        \A doc \in written_rankings(v) :
            /\ Len(doc.data) <=
                  Cardinality({r.type : r \in FullRankingTables[v]})
            /\ descending(doc.data)

\* the part of C16 that the code meets: commerce_ranking lists the rows of
\* a date by descending volume
CommerceRankingDescending ==
    "commerce_ranking" \in hist.executed =>
        \A doc \in written_rankings("commerce_ranking") : descending(doc.data)

----------------------------------------------------------------------------
(* Properties of the retrying of failures (Spec)                           *)

\* C17: a failure of the survey API call (RequestException) ends a
\* pipeline run only after 3 attempts of the call, and an aggregation call
\* that raises ends the run at once, with no later call made.
FetchRetried ==
    \A i \in DOMAIN Calls :
        ended_by(i) =>
            /\ (Calls[i].stage = "fetch" /\ pipe.api = "RequestException")
                   => pipe.attempts = 3
            /\ Calls[i].stage = "aggregate"
                   => pipe.at = i /\ \A j \in pipe.done : j < i

\* the part of C17 that the code meets: a call that raises ends the run at
\* once; no call is made a second time and none after it
NeverRetried ==
    /\ pipe.attempts <= 1
    /\ \A i \in DOMAIN Calls :
          ended_by(i) => pipe.at = i /\ \A j \in pipe.done : j < i

----------------------------------------------------------------------------
(* app.py / aggregate_mongo.py: the on-demand recomputation of the         *)
(* industrial documents.  Here rel also holds the two lookup tables, as    *)
(* the sets of their labels.                                               *)

\* date LIKE '%year'
ends_with(date, year) ==
    /\ Len(date) >= Len(year)
    /\ SubSeq(date, Len(date) - Len(year) + 1, Len(date)) = year

\* str(CAST(digits AS INTEGER)): the digits without their leading zeros
RECURSIVE str_int(_)
str_int(digits) ==
    IF Len(digits) > 1 /\ Head(digits) = "0" THEN str_int(Tail(digits))
    ELSE digits

\* str(CAST(SUBSTRING(date FROM '[0-9]{4}') AS INTEGER)): the first four
\* digits in a row, "None" when the date has none
revenue_year(date) ==
    LET starts == {i \in 1..(Len(date) - 3) :
                      \A j \in 0..3 : date[i + j] \in Digits}
    IN  IF starts = {} THEN NoDivision
        ELSE str_int(SubSeq(date, CHOOSE i \in starts :
                                      \A k \in starts : i <= k,
                            (CHOOSE i \in starts :
                                 \A k \in starts : i <= k) + 3))

\* SELECT date, production ... WHERE date LIKE %year AND id_activity = id
\* ORDER BY date, as the total_production list
total_production(table, year, activity) ==
    LET rows == order_by({r \in table : r.type = activity
                                         /\ ends_with(r.date, year)}, "date")
    IN  [i \in DOMAIN rows |->
            [date |-> rows[i].date, production |-> rows[i].value]]

\* SELECT year, SUM(revenue) ... WHERE id_activity_cnae = id GROUP BY year
\* ORDER BY year, as the dict {str(year): float(revenue)}
revenue_data(table, activity) ==
    LET own == {r \in table : r.type = activity}
        sums == {[type |-> activity, date |-> y,
                  value |-> sum_value({r \in own : revenue_year(r.date) = y})] :
                    y \in {revenue_year(r.date) : r \in own}}
        rows == order_by(sums, "date")
    IN  [i \in DOMAIN rows |-> <<rows[i].date, rows[i].value>>]

\* collection.find_one(query_filter): the documents that match
find(store, collection_name, query_filter) ==
    {store[collection_name][k] : k \in
        {x \in DOMAIN store[collection_name] :
            \A f \in DOMAIN query_filter :
                /\ f \in DOMAIN store[collection_name][x]
                /\ store[collection_name][x][f] = query_filter[f]}}

\* the store after aggregate_mongo.industrial_production_series(year,
\* activity), which returns without writing when the activity is not found
industrial_production_series(db, store, year, activity) ==
    IF activity \notin db.industrial_activity THEN store
    ELSE store_by_filter(store, "industrial_production_series",
             [year |-> year, activity |-> activity],
             ObjectId(year \o <<" ">> \o activity),
             [date |-> year, activity |-> activity,
              total_production |->
                  total_production(db.industrial_production, year, activity)])

\* the store after aggregate_mongo.industrial_revenue_yearly(activity), for
\* an activity of the lookup table
industrial_revenue_yearly(db, store, activity) ==
    store_by_filter(store, "industrial_revenue_yearly",
        [activity |-> activity], ObjectId(activity),
        [activity |-> activity,
         data |-> revenue_data(db.industrial_revenue, activity)])

\* the response of a route: found documents answer 200, none answers 404
found_or_404(route, results) ==
    IF results = {} THEN {[coll |-> route, status |-> 404, docs |-> << >>]}
    ELSE {[coll |-> route, status |-> 200, docs |-> <<d>>] : d \in results}

\* POST /api/generate_industrial_production
api_generate_industrial_production(activity, date) ==
    /\ IF activity = None \/ date = None
       THEN /\ mongo' = mongo
            /\ seen' = [coll |-> "generate_industrial_production",
                        status |-> 400, docs |-> << >>]
       ELSE \E store \in {industrial_production_series(rel, mongo, date,
                                                       activity)} :
               /\ mongo' = store
               /\ seen' \in found_or_404("generate_industrial_production",
                               find(store, "industrial_production_series",
                                    [activity |-> activity, date |-> date]))
    /\ hist' = [hist EXCEPT !.before = mongo,
                    !.asked = {<<"production", activity, date>>}]
    /\ UNCHANGED <<rel, job, pipe>>

\* POST /api/generate_industrial_revenue; result_activity[0][0] raises
\* IndexError when the activity is not found, which the route answers 500
api_generate_industrial_revenue(activity) ==
    /\ IF activity = None
       THEN /\ mongo' = mongo
            /\ seen' = [coll |-> "generate_industrial_revenue",
                        status |-> 400, docs |-> << >>]
       ELSE IF activity \notin rel.industrial_activity_cnae
       THEN /\ mongo' = mongo
            /\ seen' = [coll |-> "generate_industrial_revenue",
                        status |-> 500, docs |-> << >>]
       ELSE \E store \in {industrial_revenue_yearly(rel, mongo, activity)} :
               /\ mongo' = store
               /\ seen' \in found_or_404("generate_industrial_revenue",
                               find(store, "industrial_revenue_yearly",
                                    [activity |-> activity]))
    /\ hist' = [hist EXCEPT !.before = mongo,
                    !.asked = {<<"revenue", activity>>}]
    /\ UNCHANGED <<rel, job, pipe>>

\* "janeiro 2020", "maio 2020" and "maio 2021"
OnDemandDates ==
    << MonthNames[1] \o <<" ">> \o Year2020,
       MonthNames[5] \o <<" ">> \o Year2020,
       MonthNames[5] \o <<" ">> \o Year2021 >>

OnDemandValues == {1500}

\* the labels of a lookup table: those with observations and those of idx
labels_of(types, p, idx) == {types[c.t] : c \in p} \cup {types[i] : i \in idx}

ondemand_tables_of(p, idx) ==
    [tables_of({}) EXCEPT
        !.industrial_production = rows_of(p, ActivityTypes, OnDemandDates),
        !.industrial_revenue = rows_of(p, ActivityCNAETypes, OnDemandDates)]
    @@ [industrial_activity |-> labels_of(ActivityTypes, p, idx),
        industrial_activity_cnae |-> labels_of(ActivityCNAETypes, p, idx)]

OnDemandStore ==
    EmptyStore @@ [industrial_production_series |-> << >>,
                   industrial_revenue_yearly |-> << >>]

InitOnDemand ==
    /\ rel \in {ondemand_tables_of(p, idx) :
                   p \in Patterns(2, 3, OnDemandValues), idx \in SUBSET {1, 2}}
    /\ mongo = OnDemandStore
    /\ job = Idle
    /\ seen = [coll |-> "none", status |-> 0, docs |-> << >>]
    /\ hist = NoHistory(mongo)
    /\ pipe = NoPipeline

NextOnDemand ==
    \/ \E i \in 1..2, date \in {Year2020, Year2021, None} :
          api_generate_industrial_production(ActivityTypes[i], date)
    \/ \E date \in {Year2020, Year2021} :
          api_generate_industrial_production(None, date)
    \/ \E i \in 1..2 : api_generate_industrial_revenue(ActivityCNAETypes[i])
    \/ api_generate_industrial_revenue(None)

SpecOnDemand == InitOnDemand /\ [][NextOnDemand]_vars

----------------------------------------------------------------------------
(* Properties of the on-demand recomputation (SpecOnDemand)                *)

\* the keys of a collection whose document differs from before the request
changed(c) ==
    {k \in DOMAIN mongo[c] \cup DOMAIN hist.before[c] :
        \/ k \notin DOMAIN mongo[c]
        \/ k \notin DOMAIN hist.before[c]
        \/ mongo[c][k] # hist.before[c][k]}

\* the production request answered last wrote at most the document of its
\* (year, activity), which it returned; for an activity without a row in
\* the lookup table it wrote nothing and answered "not found"
ProductionOnDemand ==
    \A q \in hist.asked : (q[1] = "production" /\ seen.status # 400) =>
        /\ \A c \in DOMAIN mongo :
              changed(c) \subseteq
                  IF c = "industrial_production_series"
                  THEN {ObjectId(q[3] \o <<" ">> \o q[2])} ELSE {}
        /\ IF q[2] \in rel.industrial_activity
           THEN /\ seen.status = 200
                /\ seen.docs =
                      <<mongo.industrial_production_series[
                            ObjectId(q[3] \o <<" ">> \o q[2])]>>
                /\ seen.docs[1].activity = q[2]
                /\ seen.docs[1].date = q[3]
                /\ seen.docs[1].total_production =
                      total_production(rel.industrial_production, q[3], q[2])
           ELSE /\ seen.status = 404
                /\ \A c \in DOMAIN mongo : changed(c) = {}

\* the same for the revenue request and the document of its activity
RevenueOnDemand ==
    \A q \in hist.asked : (q[1] = "revenue" /\ seen.status # 400) =>
        /\ \A c \in DOMAIN mongo :
              changed(c) \subseteq
                  IF c = "industrial_revenue_yearly"
                  THEN {ObjectId(q[2])} ELSE {}
        /\ IF q[2] \in rel.industrial_activity_cnae
           THEN /\ seen.status = 200
                /\ seen.docs = <<mongo.industrial_revenue_yearly[ObjectId(q[2])]>>
                /\ seen.docs[1].activity = q[2]
                /\ seen.docs[1].data =
                      revenue_data(rel.industrial_revenue, q[2])
           ELSE /\ seen.status = 404
                /\ \A c \in DOMAIN mongo : changed(c) = {}

\* C18: an on-demand request for (year, activity) or (activity) recomputes
\* and upserts only the document of that key, leaves every other document
\* unchanged and returns that document; when the activity has no row in
\* the lookup table it answers "not found", not a server error, and writes
\* nothing.  This holds for the production and for the revenue route.
OnDemandRecomputation == ProductionOnDemand /\ RevenueOnDemand

\* a production request has been answered "not found" after another one
\* stored and returned a document with two observations
ProductionOnDemandReached ==
    /\ seen.status = 404
    /\ seen.coll = "generate_industrial_production"
    /\ \E k \in DOMAIN mongo.industrial_production_series :
          Len(mongo.industrial_production_series[k].total_production) = 2

----------------------------------------------------------------------------
(* populate.py: the filling of a lookup table and of the metric tables     *)
(* that refer to it.  Here rel also holds the lookup table commerce_group, *)
(* as the set of its labels; data is a sequence of fetched rows.           *)

\* a metric row without its type, date or value
incomplete(row) == row.type = None \/ row.date = None

\* the lookup table after populate_commerce_group(data): INSERT ... ON
\* CONFLICT (type) DO NOTHING for each row with a type
populate_lookup(lookup, data) ==
    lookup \cup {data[i].type : i \in {j \in DOMAIN data : data[j].type # None}}

\* a metric table after the loop of a populate function whose lookup miss
\* raised instead of skipping: the transaction is not committed
RECURSIVE populate_rows_abort(_, _, _)
populate_rows_abort(table, lookup, data) ==
    IF \E i \in DOMAIN data : ~incomplete(data[i]) /\ data[i].type \notin lookup
    THEN table
    ELSE IF data = << >> THEN table
    ELSE LET row == Head(data)
         IN  IF incomplete(row)
                \/ \E r \in table : r.type = row.type /\ r.date = row.date
             THEN populate_rows_abort(table, lookup, Tail(data))
             ELSE populate_rows_abort(table \cup {row}, lookup, Tail(data))

\* the loop with INSERT ... ON CONFLICT (id, date) DO UPDATE: the fetched
\* value replaces the stored one
RECURSIVE populate_rows_update(_, _, _)
populate_rows_update(table, lookup, data) ==
    IF data = << >> THEN table
    ELSE LET row == Head(data)
         IN  IF incomplete(row) \/ row.type \notin lookup
             THEN populate_rows_update(table, lookup, Tail(data))
             ELSE populate_rows_update(
                      {r \in table : r.type # row.type \/ r.date # row.date}
                          \cup {row},
                      lookup, Tail(data))

\* a metric table after the loop of a populate function and its commit: an
\* incomplete row and a row whose type is not in the lookup table are
\* skipped, INSERT ... ON CONFLICT (id, date) DO NOTHING for the others
RECURSIVE populate_rows(_, _, _)
populate_rows(table, lookup, data) ==
    IF data = << >> THEN table
    ELSE LET row == Head(data)
         IN  IF incomplete(row)
                \/ row.type \notin lookup
                \/ \E r \in table : r.type = row.type /\ r.date = row.date
             THEN populate_rows(table, lookup, Tail(data))
             ELSE populate_rows(table \cup {row}, lookup, Tail(data))

populate_commerce_group(data) ==
    /\ rel' = [rel EXCEPT !.commerce_group = populate_lookup(@, data)]
    /\ hist' = [hist EXCEPT !.asked = {<<"commerce_group", data>>}]
    /\ UNCHANGED <<mongo, job, seen, pipe>>

populate_commerce_volume(data) ==
    /\ rel' = [rel EXCEPT !.commerce_volume =
                              populate_rows(@, rel.commerce_group, data)]
    /\ hist' = [hist EXCEPT !.asked = {<<"commerce_volume", data>>}]
    /\ UNCHANGED <<mongo, job, seen, pipe>>

\* the fetched rows: two codes, one date, two values, and a row without
\* its date
FetchedRows ==
    [type : {CommerceTypes[1], CommerceTypes[4]}, date : {CommerceDates[1]},
     value : {4, 1500}]
    \cup {[type |-> CommerceTypes[1], date |-> None, value |-> 4]}

MaxFetched == 2

FetchedData ==
    UNION {[1..n -> FetchedRows] : n \in 0..MaxFetched}

InitPopulate ==
    /\ rel = tables_of({}) @@ [commerce_group |-> {}]
    /\ mongo = EmptyStore
    /\ job = Idle
    /\ seen = NoResponse
    /\ hist = NoHistory(mongo)
    /\ pipe = NoPipeline

NextPopulate ==
    \/ \E data \in FetchedData : populate_commerce_group(data)
    \/ \E data \in FetchedData : populate_commerce_volume(data)

SpecPopulate == InitPopulate /\ [][NextPopulate]_vars

----------------------------------------------------------------------------
(* Properties of the lookup misses (SpecPopulate)                          *)

\* table becomes after from the rows of data under the lookup table: the
\* rows it had stay, a row of a type that the lookup table lacks is not
\* stored, and every complete row of a type that the lookup table has is
\* stored unless the table had or got before it a row of its type and date
skips_misses(table, after, lookup, data) ==
    /\ table \subseteq after
    /\ \A r \in after \ table :
          r.type \in lookup /\ \E i \in DOMAIN data : data[i] = r
    /\ \A r \in after : r.type \in lookup
    /\ \A i \in DOMAIN data :
          (~incomplete(data[i]) /\ data[i].type \in lookup) =>
              \E r \in after : r.type = data[i].type /\ r.date = data[i].date
    /\ \A i \in DOMAIN data :
          (/\ ~incomplete(data[i])
           /\ data[i].type \in lookup
           /\ \A r \in table :
                 r.type # data[i].type \/ r.date # data[i].date
           /\ \A j \in 1..(i - 1) :
                 data[j].type # data[i].type \/ data[j].date # data[i].date)
          => data[i] \in after

\* C19: a metric row whose type has no row in the lookup table is not
\* stored, and the other rows of the same data are still processed and
\* committed: each step of populate_commerce_volume keeps the rows of its
\* table and adds the complete rows of known types, and no others.
LookupMissSkipped ==
    [][\A q \in hist'.asked :
          q[1] = "commerce_volume" =>
              skips_misses(rel.commerce_volume, rel'.commerce_volume,
                           rel.commerce_group, q[2])]_vars

\* populate_commerce_volume has stored the second row of data whose first
\* row has a type that the lookup table lacks
LookupMissSkippedReached ==
    \E q \in hist.asked :
        /\ q[1] = "commerce_volume"
        /\ Len(q[2]) = 2
        /\ ~incomplete(q[2][1])
        /\ q[2][1].type \notin rel.commerce_group
        /\ q[2][2] \in rel.commerce_volume
        /\ \A r \in rel.commerce_volume : r.type # q[2][1].type

----------------------------------------------------------------------------
(* run.py and app.py as programs of several threads.  Both run             *)
(* update_data on the main thread, start a BackgroundScheduler whose job   *)
(* is update_data, and then serve requests; app.py also has the two routes *)
(* that recompute a document on demand, and its development server         *)
(* answers each request on a thread of its own.  A view computation reads  *)
(* PostgreSQL, transforms, and writes MongoDB.                             *)

RequestThreads == {"request 1", "request 2"}

Threads == {"main", "job"} \cup RequestThreads

Programs == {"run.py", "app.py"}

\* the views that a route of app.py computes
OnDemandViews == {"industrial_production_series", "industrial_revenue_yearly"}

\* a thread that computes no view
NoView == [at |-> 0, phase |-> "idle", view |-> "none"]

\* main(): the initial update_data() on the main thread (app.py has
\* started its scheduler before it, with a first firing 30 days later)
initial_update ==
    /\ pipe.pc = "start"
    /\ pipe' = [pipe EXCEPT !.pc = "update_data",
                            !.threads["main"] = [NoView EXCEPT !.at = 1]]
    /\ UNCHANGED <<rel, mongo, job, seen, hist>>

\* the run of thread t calls its next view, which queries PostgreSQL
view_begins(t) ==
    /\ pipe.threads[t].at \in DOMAIN Views
    /\ pipe.threads[t].phase = "idle"
    /\ pipe' = [pipe EXCEPT !.threads[t].phase = "read",
                            !.threads[t].view = Views[pipe.threads[t].at]]
    /\ UNCHANGED <<rel, mongo, job, seen, hist>>

\* the view of thread t has its rows and starts to write MongoDB
view_transforms(t) ==
    /\ pipe.threads[t].phase = "read"
    /\ pipe' = [pipe EXCEPT !.threads[t].phase = "write"]
    /\ UNCHANGED <<rel, mongo, job, seen, hist>>

\* the view of thread t has written and returns: the run goes on to its
\* next view or ends (after the initial run main() goes on to start the
\* server; the scheduler's job and a request end)
view_ends(t) ==
    /\ pipe.threads[t].phase = "write"
    /\ pipe' =
          IF pipe.threads[t].at \in 1..(Len(Views) - 1)
          THEN [pipe EXCEPT !.threads[t] =
                                [NoView EXCEPT !.at = pipe.threads[t].at + 1]]
          ELSE [pipe EXCEPT !.threads[t] = NoView,
                            !.pc = IF t = "main" THEN "serving" ELSE @]
    /\ UNCHANGED <<rel, mongo, job, seen, hist>>

\* the scheduler's trigger fires and its thread calls update_data; a job
\* has one running instance at most
trigger_fires ==
    /\ pipe.pc = "serving"
    /\ pipe.threads["job"] = NoView
    /\ pipe' = [pipe EXCEPT !.threads["job"] = [NoView EXCEPT !.at = 1]]
    /\ UNCHANGED <<rel, mongo, job, seen, hist>>

\* app.py: a POST to a generate route is taken by a request thread, which
\* calls the route's view
generate_request(t, v) ==
    /\ pipe.pc = "serving"
    /\ pipe.program = "app.py"
    /\ pipe.threads[t] = NoView
    /\ pipe' = [pipe EXCEPT !.threads[t] =
                                [NoView EXCEPT !.phase = "read", !.view = v]]
    /\ UNCHANGED <<rel, mongo, job, seen, hist>>

InitThreads ==
    /\ rel = tables_of({})
    /\ mongo = EmptyStore
    /\ job = Idle
    /\ seen = NoResponse
    /\ hist = NoHistory(mongo)
    /\ pipe \in {[NoPipeline EXCEPT !.pc = "start", !.program = p,
                                    !.threads = [t \in Threads |-> NoView]] :
                    p \in Programs}

NextThreads ==
    \/ initial_update
    \/ \E t \in {"main", "job"} : view_begins(t)
    \/ \E t \in Threads : view_transforms(t)
    \/ \E t \in Threads : view_ends(t)
    \/ trigger_fires
    \/ \E t \in RequestThreads, v \in OnDemandViews : generate_request(t, v)

SpecThreads == InitThreads /\ [][NextThreads]_vars

----------------------------------------------------------------------------
(* Properties of the concurrency of views (SpecThreads)                    *)

\* the threads that are inside a view computation
computing == {t \in Threads : pipe.threads[t].phase \in {"read", "write"}}

\* C20: at any moment at most one view computation, of the initial run, of
\* a scheduled run or of an on-demand request, reads the relational store
\* or writes the document store.
ViewsNeverConcurrent == Cardinality(computing) <= 1

\* the part of C20 that the code meets: under run.py, whose server has no
\* route that computes a view, and within one run of update_data
ViewsSequentialInRun ==
    /\ pipe.program = "run.py" => Cardinality(computing) <= 1
    /\ Cardinality(computing \cap {"main", "job"}) <= 1

----------------------------------------------------------------------------
(* Properties of the frame of the aggregation stage (SpecFault)            *)

\* C21: no step of an aggregation run, of a view that returns or of one
\* that raises, changes the content of a relational table.
RelationalStoreUntouched == [][rel' = rel]_vars

\* a run has raised in a view after other views of it returned, over
\* tables that hold rows
RelationalStoreUntouchedReached ==
    /\ job.state = "raised"
    /\ hist.executed # {}
    /\ rel.commerce_volume # {}
    /\ mongo # hist.before

----------------------------------------------------------------------------
(* Properties of the order of the stages (Spec)                            *)

\* the calls that the current run of update_data has made
calls_made ==
    pipe.done \cup (IF pipe.pc = "update_data" /\ pipe.at \in DOMAIN Calls
                    THEN {pipe.at} ELSE {})
              \cup (IF pipe.raised \in DOMAIN Calls THEN {pipe.raised} ELSE {})

\* C22: in a run of update_data a populate call is made only after every
\* fetch call has returned and an aggregate call only after every populate
\* call has returned; when a fetch call raises (also after the API call
\* returned, as on a missing column) the run makes no populate and no
\* aggregate call, the only calls that write the relational and the
\* document store.
StageOrdering ==
    /\ \A j \in calls_made : \A i \in 1..(j - 1) : i \in pipe.done
    /\ \A i \in DOMAIN Calls :
          (ended_by(i) /\ Calls[i].stage = "fetch") =>
              \A j \in calls_made : Calls[j].stage = "fetch"

\* a scheduled run has ended on a fetch call that raised after its API
\* call returned, with earlier fetch calls done
StageOrderingReached ==
    \E i \in DOMAIN Calls :
        /\ ended_by(i)
        /\ i > 1
        /\ Calls[i].stage = "fetch"
        /\ pipe.api = "returned"
        /\ pipe.thread = "job"
        /\ pipe.done = 1..(i - 1)

----------------------------------------------------------------------------
(* Properties of the startup (Spec)                                        *)

\* the web server has been started by main()
server_started ==
    \/ pipe.pc = "serving"
    \/ pipe.pc = "update_data" /\ pipe.thread = "job"

ExitedAtSchedulerReached ==
    /\ pipe.pc = "exited"
    /\ pipe.app_data
    /\ pipe.scheduler = "failed"

----------------------------------------------------------------------------
(* Properties of a failed scheduled run (Spec)                             *)

\* a scheduled run has ended with an exception
scheduled_run_failed ==
    pipe.thread = "job" /\ pipe.raised # 0 /\ pipe.pc # "update_data"

\* C24: a scheduled run that raises at any call ends there (no call is
\* made again), leaves serve.app_data as it was and the scheduler running;
\* the next trigger can fire and starts the pipeline again at its first
\* fetch call.
FailedRunNotRetried ==
    /\ [](scheduled_run_failed =>
             /\ pipe.pc = "serving"
             /\ pipe.app_data
             /\ pipe.scheduler = "started"
             /\ pipe.at = pipe.raised
             /\ ENABLED cron_fires)
    /\ [][/\ (pipe.pc = "update_data" /\ pipe'.pc # "update_data")
                 => pipe'.app_data = (pipe.app_data \/ pipe'.raised = 0)
          /\ (pipe.pc = "update_data" /\ pipe'.pc = "update_data")
                 => pipe'.at >= pipe.at /\ pipe'.raised = pipe.raised
          /\ (pipe.pc = "serving" /\ pipe'.pc = "update_data")
                 => /\ pipe'.at = 1
                    /\ pipe'.done = {}
                    /\ pipe'.raised = 0
                    /\ pipe'.thread = "job"]_vars

\* a scheduled run has failed in its aggregate stage
FailedRunNotRetriedReached ==
    /\ scheduled_run_failed
    /\ pipe.raised \in DOMAIN Calls
    /\ Calls[pipe.raised].stage = "aggregate"
    /\ pipe.pc = "serving"

----------------------------------------------------------------------------
(* Properties of the document ids of the per-classification views          *)
(* (SpecAgg)                                                               *)

\* the classifications with an observation that a view keeps
kept_labels(v) ==
    IF v = "industry_production_series"
    THEN labels(parseable(rel.industrial_production))
    ELSE IF v = "industry_revenue_yearly"
    THEN labels(rel.industrial_revenue)
    ELSE labels({r \in parseable(service_table(v)) : round2(r.value) # 0})

\* C25: a per-classification view writes one document per distinct
\* classification label of its data (after the service zero filter), for
\* any labels, also those that differ only in diacritics, letter case or
\* space against underscore: no insert fails and the ids are as many as
\* the labels.
OneDocumentPerLabel ==
    /\ job.state # "raised"
    /\ \A v \in PerClassificationViews :
          v \in hist.executed =>
              Cardinality(DOMAIN mongo[v]) = Cardinality(kept_labels(v))

\* the part of C25 that the code meets: when the labels of a view have
\* pairwise distinct slugs, the view returns with one document per label
OneDocumentPerSlug ==
    /\ job.state = "raised" =>
          \E a, b \in kept_labels(Views[job.next]) :
              a # b /\ slug(a) = slug(b)
    /\ \A v \in PerClassificationViews :
          v \in hist.executed =>
              Cardinality(DOMAIN mongo[v])
                  = Cardinality({slug(l) : l \in kept_labels(v)})

----------------------------------------------------------------------------
(* aggregate() over tables in which a classification has two raw dates of  *)
(* the same month, "Janeiro 2020" and "janeiro 2020", and one of an        *)
(* earlier month, "março 2019".                                            *)

SeriesDates ==
    << capitalize(MonthNames[1]) \o <<" ">> \o Year2020,
       MonthNames[1] \o <<" ">> \o Year2020,
       MonthNames[3] \o <<" ", "2", "0", "1", "9">> >>

series_tables_of(p) ==
    [tables_of({}) EXCEPT
        !.industrial_production = rows_of(p, ActivityTypes, SeriesDates),
        !.industrial_revenue = rows_of(p, ActivityCNAETypes, CommerceDates),
        !.service_volume = rows_of(p, SegmentTypes, SeriesDates),
        !.service_revenue = rows_of(p, SegmentTypes, SeriesDates)]

InitSeries ==
    /\ rel \in {series_tables_of(p) : p \in Patterns(3, 3, {1500})}
    /\ mongo \in PriorStores
    /\ job = Idle
    /\ seen = NoResponse
    /\ hist = NoHistory(mongo)
    /\ pipe = NoPipeline

SpecSeries == InitSeries /\ [][NextAgg]_vars

----------------------------------------------------------------------------
(* Properties of the series of a document (SpecSeries)                     *)

\* the series of the documents of a collection
series_of(v) == {mongo[v][k].data : k \in DOMAIN mongo[v]}

\* a series in ascending order of its period keys, equal keys allowed
ascending(data) ==
    \A i, j \in DOMAIN data : i < j => ~str_lt(data[j].date, data[i].date)

\* C26: in every document of a per-classification view the series is in
\* ascending order of its period key and holds each period key once at
\* most, also when two raw dates of the classification normalise to the
\* same period.
SeriesSortedAndUnique ==
    \A v \in PerClassificationViews : v \in hist.executed =>
        \A data \in series_of(v) :
            /\ ascending(data)
            /\ \A i, j \in DOMAIN data : data[i].date = data[j].date => i = j

\* the part of C26 that the code meets: the series are in ascending order
SeriesSorted ==
    \A v \in PerClassificationViews : v \in hist.executed =>
        \A data \in series_of(v) : ascending(data)

----------------------------------------------------------------------------
(* Documents of the upsert views across runs (SpecAgg)                     *)

UpsertViews ==
    {"commerce_volume", "commerce_division", "commerce_ranking",
     "commerce_revenue_expense_year", "commerce_revenue_expense_grouped"}

\* the periods of the rows that an upsert view reads
periods_read(v) ==
    IF v \in {"commerce_revenue_expense_year",
              "commerce_revenue_expense_grouped"}
    THEN {r.date : r \in rel.commerce_revenue \cup rel.commerce_expense}
    ELSE {r.date : r \in rel.commerce_volume}

\* C27: no step deletes a document of an upsert view: the keys of each of
\* these collections only grow, and a key whose period the relational data
\* no longer has keeps its content.
UpsertNeverDeletes ==
    [][\A v \in UpsertViews :
          /\ DOMAIN mongo[v] \subseteq DOMAIN mongo'[v]
          /\ \A k \in DOMAIN mongo[v] :
                 k \notin periods_read(v) => mongo'[v][k] = mongo[v][k]]_vars

\* a run over tables with rows has executed the upsert views on a store
\* that held a period the tables no longer have, and added a key to it
UpsertNeverDeletesReached ==
    /\ UpsertViews \subseteq hist.executed
    /\ hist.before = StaleStore
    /\ rel.commerce_volume # {}
    /\ \A v \in UpsertViews :
          /\ OldDates[1] \in DOMAIN mongo[v]
          /\ OldDates[1] \notin periods_read(v)
          /\ mongo[v][OldDates[1]] = StaleStore[v][OldDates[1]]
          /\ DOMAIN mongo[v] # DOMAIN StaleStore[v]

----------------------------------------------------------------------------
(* Rows that populate finds stored (SpecPopulate)                          *)

\* C28: populate never updates or deletes a stored row: every row of every
\* table is still there, with its value, after a populate call, also when
\* the call fetched another value for the row's classification and date;
\* and the same call made again with the same fetched data leaves the
\* tables as they are.
PopulateInsertOnly ==
    [][/\ \A t \in DOMAIN rel : rel[t] \subseteq rel'[t]
       /\ \A a \in hist'.asked :
             /\ a[1] = "commerce_group" =>
                    populate_lookup(rel'.commerce_group, a[2])
                        = rel'.commerce_group
             /\ a[1] = "commerce_volume" =>
                    populate_rows(rel'.commerce_volume, rel'.commerce_group,
                                  a[2]) = rel'.commerce_volume]_vars

\* populate_commerce_volume has fetched, for a stored classification and
\* date, a value other than the stored one
PopulateInsertOnlyReached ==
    \E a \in hist.asked :
        /\ a[1] = "commerce_volume"
        /\ Len(a[2]) = 1
        /\ \E r \in rel.commerce_volume :
               /\ r.type = a[2][1].type
               /\ r.date = a[2][1].date
               /\ r.value # a[2][1].value

----------------------------------------------------------------------------
(* The view functions of aggregate() called in any order: a run calls      *)
(* each view once, a view that raises ends the run as in aggregate().      *)

\* a run begins
views_called ==
    /\ job.state = "idle"
    /\ job' = [Idle EXCEPT !.state = "running"]
    /\ hist' = [hist EXCEPT !.executed = {}, !.before = mongo,
                            !.prev = job.state]
    /\ UNCHANGED <<rel, mongo, seen, pipe>>

\* the called view, Views[i], issues all its writes and returns
any_view_completes(i) ==
    /\ job.state = "running"
    /\ Views[i] \notin hist.executed
    /\ \E r \in {run_writes(mongo, view_writes(Views[i], rel))} :
           /\ r.ok
           /\ mongo' = r.store
    /\ hist' = [hist EXCEPT !.executed = @ \cup {Views[i]}]
    /\ job' = IF hist.executed \cup {Views[i]} = {Views[n] : n \in DOMAIN Views}
              THEN [job EXCEPT !.state = "returned"]
              ELSE job
    /\ UNCHANGED <<rel, seen, pipe>>

\* an insert_one of the called view, Views[i], raises, and the run ends
any_view_fails(i) ==
    /\ job.state = "running"
    /\ Views[i] \notin hist.executed
    /\ \E r \in {run_writes(mongo, view_writes(Views[i], rel))} :
           /\ ~r.ok
           /\ mongo' = r.store
    /\ job' = [job EXCEPT !.state = "raised", !.next = i]
    /\ UNCHANGED <<rel, seen, hist, pipe>>

InitOrder ==
    /\ rel \in {tables_of(p) : p \in Patterns(2, 2, {1500})}
    /\ mongo \in PriorStores
    /\ job = Idle
    /\ seen = NoResponse
    /\ hist = NoHistory(mongo)
    /\ pipe = NoPipeline

NextOrder ==
    \/ views_called
    \/ \E i \in DOMAIN Views : any_view_completes(i)
    \/ \E i \in DOMAIN Views : any_view_fails(i)

SpecOrder == InitOrder /\ [][NextOrder]_vars

\* the collections whose content a step changes
written_by_step == {c \in Collections : mongo'[c] # mongo[c]}

\* the view that a step of a run called: the one that returned, or the one
\* that raised
called_by_step ==
    {Views[i] : i \in {n \in DOMAIN Views :
        \/ Views[n] \in hist'.executed \ hist.executed
        \/ job'.state = "raised" /\ job'.next = n}}

\* C29: the views are independent.  A step of a view changes no collection
\* but the view's own, whether the view returns or raises, and when every
\* view has run, in whatever order, the store is the one that the order of
\* aggregate() leaves.
ViewsIndependent ==
    /\ [][job.state = "running" =>
              /\ Cardinality(called_by_step) = 1
              /\ written_by_step \subseteq called_by_step]_vars
    /\ [](job.state = "returned"
              => mongo = run_views(hist.before, rel, 1))

\* every view has run on tables with rows, and the run has written to
\* more than five collections
ViewsIndependentReached ==
    /\ job.state = "returned"
    /\ rel.commerce_volume # {}
    /\ Cardinality({c \in Collections : mongo[c] # hist.before[c]}) > 5

----------------------------------------------------------------------------
(* commerce_volume_yearly() of aggregate_mongo.py, and aggregate(), over   *)
(* tables that may have no rows.                                           *)

\* the yearly_commerce_volume dict after the loop over the rows of
\* SELECT CAST(SUBSTRING(date FROM '[0-9]{4}') AS INTEGER) AS ano, SUM(count)
\* ... GROUP BY ano: one key str(year) per group, as a mapping
yearly_commerce_volume(table) ==
    [y \in {revenue_year(r.date) : r \in table} |->
        sum_value({r \in table : revenue_year(r.date) = y})]

\* update_one({}, {"$set": data}, upsert=True): the empty filter matches a
\* document of the collection when it has one
store_unfiltered(store, collection_name, oid, data) ==
    IF DOMAIN store[collection_name] # {}
    THEN [store EXCEPT ![collection_name] =
             [@ EXCEPT ![CHOOSE k \in DOMAIN @ : TRUE] = set_fields(@, data)]]
    ELSE [store EXCEPT ![collection_name] = (oid :> data) @@ @]

\* the loop has bound year_str; the series literal reads it and the dict is
\* stored
commerce_volume_yearly_returns ==
    /\ rel.commerce_company_count # {}
    /\ mongo' = store_unfiltered(mongo, "commerce_volume_yearly",
                    ObjectId(<<"1">>),
                    [data |-> yearly_commerce_volume(rel.commerce_company_count)])
    /\ seen' = [coll |-> "commerce_volume_yearly", status |-> "returned",
                docs |-> << >>]
    /\ UNCHANGED <<rel, job, hist, pipe>>

\* the query returned no rows: the loop body never ran, year_str is unbound
\* and the series literal raises UnboundLocalError, which is logged and
\* raised again before anything is stored
commerce_volume_yearly_raises ==
    /\ rel.commerce_company_count = {}
    /\ seen' = [coll |-> "commerce_volume_yearly", status |-> "raised",
                docs |-> << >>]
    /\ UNCHANGED <<rel, mongo, job, hist, pipe>>

YearlyStores ==
    {st @@ [commerce_volume_yearly |-> << >>] : st \in PriorStores}

InitYearly ==
    /\ rel \in {tables_of(p) : p \in Patterns(3, 3, {1500})}
    /\ mongo \in YearlyStores
    /\ job = Idle
    /\ seen = NoResponse
    /\ hist = NoHistory(mongo)
    /\ pipe = NoPipeline

NextYearly ==
    \/ aggregate_call
    \/ view_completes
    \/ view_fails
    \/ commerce_volume_yearly_returns
    \/ commerce_volume_yearly_raises

SpecYearly == InitYearly /\ [][NextYearly]_vars

no_rows == \A t \in DOMAIN rel : rel[t] = {}

\* the views of aggregate() have run over tables without rows: none raised,
\* the upsert views wrote nothing and the replace views left their
\* collections empty
EmptyTablesAggregate ==
    no_rows =>
        /\ job.state # "raised"
        /\ \A v \in hist.executed :
              IF v \in UpsertViews THEN mongo[v] = hist.before[v]
              ELSE mongo[v] = << >>

\* C30: over tables without rows every aggregation view completes without
\* raising: an upsert view writes no document, a replace view leaves its
\* collection empty, and commerce_volume_yearly stores an empty mapping.
EmptyTablesComplete ==
    no_rows =>
        /\ EmptyTablesAggregate
        /\ seen.coll = "commerce_volume_yearly" =>
              /\ seen.status = "returned"
              /\ \E k \in DOMAIN mongo.commerce_volume_yearly :
                     mongo.commerce_volume_yearly[k].data = << >>

\* aggregate() has returned over tables without rows, on a store that held
\* documents of an earlier run
EmptyTablesAggregateReached ==
    /\ no_rows
    /\ job.state = "returned"
    /\ hist.before.commerce_volume # << >>
    /\ hist.before.service_volume_ranking # << >>

====
